---------------------------- MODULE Spec2Model ----------------------------
(***************************************************************************)
(* WCH ISP flasher (native/wchisp-android): the frame codec, the protocol  *)
(* transactor, the flashing orchestrator and the JNI handle layer.         *)
(*                                                                         *)
(* Bytes are the naturals 0..255 and u8 arithmetic wraps at 256.  The u32   *)
(* values of a run (addresses, lengths, sector counts) stay far below 2^31, *)
(* so u32 sums are plain sums.                                             *)
(***************************************************************************)
EXTENDS Integers, Sequences, FiniteSets, TLC

(***************************************************************************)
(* Bounds of the model.                                                    *)
(***************************************************************************)
\* longest payload of the frames the codec specification enumerates
MaxPayloadLen == 3

\* threads that call the JNI entry points concurrently
NumThreads == 2

\* handles openDevice may hand out in one run
MaxHandles == 2

\* full chunks of the longest image
MaxChunks == 2

(***************************************************************************)
(* Generic helpers.                                                        *)
(***************************************************************************)
SeqsUpTo(S, n) == UNION {[1..k -> S] : k \in 0..n}

Max(a, b) == IF a >= b THEN a ELSE b

Min(a, b) == IF a <= b THEN a ELSE b

\* s[from..to) of Rust, 0-based, as a TLA+ sequence
Slice(s, from, to) == [i \in 1..(to - from) |-> s[from + i]]

Zeros(n) == [i \in 1..n |-> 0]

\* u32::to_le_bytes / pwrite_with(_, _, LE)
LE32(x) == <<x % 256, (x \div 256) % 256, (x \div 65536) % 256, (x \div 16777216) % 256>>

LE16(x) == <<x % 256, (x \div 256) % 256>>

(***************************************************************************)
(* protocol.rs: CommandType                                                *)
(***************************************************************************)
CommandTypes ==
    {"Identify", "IspEnd", "IspKey", "Erase", "Program", "Verify",
     "ReadConfig", "WriteConfig", "DataErase", "DataProgram", "DataRead"}

\* `cmd_type as u8`
CmdCode(k) ==
    CASE k = "Identify"    -> 161
      [] k = "IspEnd"      -> 162
      [] k = "IspKey"      -> 163
      [] k = "Erase"       -> 164
      [] k = "Program"     -> 165
      [] k = "Verify"      -> 166
      [] k = "ReadConfig"  -> 167
      [] k = "WriteConfig" -> 168
      [] k = "DataErase"   -> 169
      [] k = "DataProgram" -> 170
      [] k = "DataRead"    -> 171

KnownCodes == {CmdCode(k) : k \in CommandTypes}

\* the match of Response::from_raw on raw[0]
KindOfCode(b) == CHOOSE k \in CommandTypes : CmdCode(k) = b

(***************************************************************************)
(* protocol.rs: Command constructors                                       *)
(***************************************************************************)
Command(k, p) == [cmd_type |-> k, payload |-> p]

CmdIdentify(chip_id, device_type) ==
    Command("Identify", <<chip_id, device_type, 0, 0, 0, 0>>)

CmdIspKey(key_seed) == Command("IspKey", key_seed)

CmdErase(sectors) == Command("Erase", LE32(sectors))

CmdProgram(address, padding, data) ==
    Command("Program", LE32(address) \o <<padding>> \o data)

CmdVerify(address, padding, data) ==
    Command("Verify", LE32(address) \o <<padding>> \o data)

CmdReadConfig(mask) == Command("ReadConfig", LE32(mask))

CmdWriteConfig(mask, data) == Command("WriteConfig", LE32(mask) \o data)

CmdIspEnd(reset) == Command("IspEnd", <<reset>>)

CmdDataErase(sectors) == Command("DataErase", LE16(sectors))

CmdDataProgram(address, padding, data) ==
    Command("DataProgram", LE32(address) \o <<padding>> \o data)

CmdDataRead(address, length) ==
    Command("DataRead", LE32(address) \o LE16(length))

(***************************************************************************)
(* protocol.rs: Command::into_raw                                          *)
(***************************************************************************)
into_raw(cmd) ==
    <<CmdCode(cmd.cmd_type), Len(cmd.payload) % 256, 0>> \o cmd.payload

(***************************************************************************)
(* protocol.rs: Response::from_raw.  The result is Ok(Response) when ok,   *)
(* Err(err) otherwise.                                                     *)
(***************************************************************************)
DecodeErr(e) ==
    [ok |-> FALSE, err |-> e, cmd_type |-> "none", status |-> 0, payload |-> <<>>]

DecodeOk(k, st, p) ==
    [ok |-> TRUE, err |-> "", cmd_type |-> k, status |-> st, payload |-> p]

\* variant of from_raw: the declared payload length is not checked against the buffer
from_raw_unchecked_len(raw) ==
    IF Len(raw) < 4 THEN DecodeErr("Response too short")
    ELSE IF raw[1] \notin KnownCodes THEN DecodeErr("Unknown command type")
    ELSE DecodeOk(KindOfCode(raw[1]), raw[3], Slice(raw, 4, Min(4 + raw[2], Len(raw))))

\* variant of from_raw: the response header is read as the 3-byte command header
from_raw_cmd_header(raw) ==
    IF Len(raw) < 3 THEN DecodeErr("Response too short")
    ELSE IF raw[1] \notin KnownCodes THEN DecodeErr("Unknown command type")
    ELSE IF Len(raw) < 3 + raw[2] THEN DecodeErr("Incomplete response payload")
    ELSE DecodeOk(KindOfCode(raw[1]), raw[3], Slice(raw, 3, 3 + raw[2]))

\* variant of from_raw: the payload is everything after the header
from_raw_rest_of_buffer(raw) ==
    IF Len(raw) < 4 THEN DecodeErr("Response too short")
    ELSE IF raw[1] \notin KnownCodes THEN DecodeErr("Unknown command type")
    ELSE IF Len(raw) < 4 + raw[2] THEN DecodeErr("Incomplete response payload")
    ELSE DecodeOk(KindOfCode(raw[1]), raw[3], Slice(raw, 4, Len(raw)))

from_raw(raw) ==
    IF Len(raw) < 4 THEN DecodeErr("Response too short")
    ELSE IF raw[1] \notin KnownCodes THEN DecodeErr("Unknown command type")
    ELSE LET payload_len == raw[2]
             status == raw[3]
         IN IF Len(raw) < 4 + payload_len
            THEN DecodeErr("Incomplete response payload")
            ELSE DecodeOk(KindOfCode(raw[1]), status, Slice(raw, 4, 4 + payload_len))

is_ok(resp) == resp.status = 0

(***************************************************************************)
(* protocol.rs: configuration register masks                               *)
(***************************************************************************)
CFG_MASK_ALL == 31

CFG_MASK_RDPR_USER_DATA_WPR == 7

(***************************************************************************)
(* device.rs: Chip, ChipFamily, ChipDB                                     *)
(***************************************************************************)
Chip(name, chip_id, device_type, flash_size, eeprom_size, family) ==
    [name |-> name, chip_id |-> chip_id, device_type |-> device_type,
     flash_size |-> flash_size, eeprom_size |-> eeprom_size, family |-> family]

\* Chip::placeholder: the chip of a session that has not been identified
PlaceholderChip == Chip("placeholder", 0, 0, 0, 0, "Unknown")

\* ChipDB::load: the thirteen chips, in insertion order
ChipTable ==
    << Chip("CH32V307", 112, 23, 256 * 1024, 0, "CH32V"),
       Chip("CH32V103", 48, 48, 64 * 1024, 0, "CH32V"),
       Chip("CH32F103", 16, 48, 128 * 1024, 0, "CH32F"),
       Chip("CH582", 130, 130, 448 * 1024, 32 * 1024, "CH582"),
       Chip("CH32V203", 48, 25, 64 * 1024, 0, "CH32V"),
       Chip("CH32V003", 48, 33, 16 * 1024, 0, "CH32V003"),
       Chip("CH32X035", 80, 35, 62 * 1024, 0, "CH32X035"),
       Chip("CH549", 73, 17, 62 * 1024, 0, "CH549"),
       Chip("CH552", 82, 17, 16 * 1024, 0, "CH552"),
       Chip("CH573", 115, 19, 448 * 1024, 32 * 1024, "CH573"),
       Chip("CH579", 121, 19, 250 * 1024, 2 * 1024, "CH579"),
       Chip("CH559", 89, 34, 62 * 1024, 0, "CH559"),
       Chip("CH592", 146, 19, 250 * 1024, 2 * 1024, "CH592") >>

\* HashMap::insert: a later entry with the same key replaces an earlier one
ChipLookup(chip_id, device_type) ==
    {i \in 1..Len(ChipTable) :
        ChipTable[i].chip_id = chip_id /\ ChipTable[i].device_type = device_type}

\* format!("{:02X}", b)
HexDigit(n) ==
    CASE n = 0 -> "0" [] n = 1 -> "1" [] n = 2 -> "2" [] n = 3 -> "3"
      [] n = 4 -> "4" [] n = 5 -> "5" [] n = 6 -> "6" [] n = 7 -> "7"
      [] n = 8 -> "8" [] n = 9 -> "9" [] n = 10 -> "A" [] n = 11 -> "B"
      [] n = 12 -> "C" [] n = 13 -> "D" [] n = 14 -> "E" [] n = 15 -> "F"

Hex2(b) == HexDigit(b \div 16) \o HexDigit(b % 16)

\* variant of the fallback descriptor with 64 KiB of EEPROM instead of none
UnknownChipWithEeprom(chip_id, device_type) ==
    Chip("Unknown[0x" \o Hex2(chip_id) \o Hex2(device_type) \o "]",
         chip_id, device_type, 64 * 1024, 64 * 1024, "Unknown")

UnknownChip(chip_id, device_type) ==
    Chip("Unknown[0x" \o Hex2(chip_id) \o Hex2(device_type) \o "]",
         chip_id, device_type, 64 * 1024, 0, "Unknown")

\* self.chips.get(&(chip_id, device_type)).cloned(): a later insert of a key
\* replaces an earlier one
chips_get(chip_id, device_type) ==
    LET hits == ChipLookup(chip_id, device_type)
    IN IF hits # {}
       THEN [some |-> TRUE, chip |-> ChipTable[CHOOSE i \in hits : \A j \in hits : j <= i]]
       ELSE [some |-> FALSE, chip |-> PlaceholderChip]

\* ChipDB::find_chip as the Result it returns: .or_else(|| Some(fallback))
\* and then .ok_or_else(|| error)
find_chip_result(chip_id, device_type) ==
    LET got == chips_get(chip_id, device_type)
        filled == IF got.some THEN got
                  ELSE [some |-> TRUE, chip |-> UnknownChip(chip_id, device_type)]
    IN IF filled.some
       THEN [ok |-> TRUE, chip |-> filled.chip, err |-> ""]
       ELSE [ok |-> FALSE, chip |-> PlaceholderChip, err |-> "Unknown chip"]

\* ChipDB::find_chip: never an error
find_chip(chip_id, device_type) ==
    LET hits == ChipLookup(chip_id, device_type)
    IN IF hits # {}
       THEN ChipTable[CHOOSE i \in hits : \A j \in hits : j <= i]
       ELSE UnknownChip(chip_id, device_type)

support_code_flash_protect(chip) == chip.family \in {"CH32V", "CH32F"}

min_erase_sector_number(chip) == 1

sector_size(chip) == 1024

\* variant of encryption_supported that answers as support_code_flash_protect
encryption_supported_as_protect(chip) == chip.family \in {"CH32V", "CH32F"}

encryption_supported(chip) ==
    chip.family \in {"CH32V", "CH32F", "CH582", "CH579", "CH573", "CH592",
                     "CH32V003", "CH32X035"}

(***************************************************************************)
(* transport.rs                                                            *)
(***************************************************************************)
is_supported_device(vendor_id, product_id) ==
    <<vendor_id, product_id>> \in
        {<<17224, 21984>>, <<6790, 21984>>, <<6790, 29987>>, <<6790, 21795>>}

\* initialize stores global_ref.as_obj() as the connection handle and drops
\* the GlobalRef when it returns (DeleteGlobalRef): the handle is a stale
\* reference and every later JNI call on it is undefined behaviour.  The JVM
\* takes the stale reference for the connection, or aborts the process.
StaleRef == {"taken", "abort"}

\* send_raw: n is what bulkTransfer returned (-1: the JNI call or the transfer
\* failed); Ok(n) only when every byte went out; jvm is what the JVM does with
\* the stale connection handle
send_raw(connected, data, n, jvm) ==
    IF connected /\ jvm = "abort"
    THEN [ok |-> FALSE, n |-> 0, abort |-> TRUE]
    ELSE IF connected /\ n = Len(data)
    THEN [ok |-> TRUE, n |-> n, abort |-> FALSE]
    ELSE [ok |-> FALSE, n |-> 0, abort |-> FALSE]

\* recv_raw: n is what bulkTransfer returned, buf the bytes it put in the buffer
recv_raw(connected, n, buf, jvm) ==
    IF connected /\ jvm = "abort"
    THEN [ok |-> FALSE, data |-> <<>>, abort |-> TRUE]
    ELSE IF connected /\ n > 0
    THEN [ok |-> TRUE, data |-> Slice(buf, 0, n), abort |-> FALSE]
    ELSE [ok |-> FALSE, data |-> <<>>, abort |-> FALSE]

\* release_interface and close: released is whether every JNI call of close
\* returned without an exception
close(connected, released, jvm) ==
    IF connected /\ jvm = "abort"
    THEN [ok |-> FALSE, abort |-> TRUE]
    ELSE [ok |-> ~connected \/ released, abort |-> FALSE]

(***************************************************************************)
(* protocol.rs: ProtocolHandler::transfer_with_timeout, after the send:    *)
(* rx is what recv_raw returned.                                           *)
(***************************************************************************)
TransferErr(e) ==
    [ok |-> FALSE, err |-> e, resp |-> DecodeErr("")]

TransferOk(resp) ==
    [ok |-> TRUE, err |-> "", resp |-> resp]

\* variant of transfer_received: the response's kind is not compared with the command's
transfer_received_any_kind(cmd, rx) ==
    IF ~rx.ok THEN TransferErr("USB receive failed or timeout")
    ELSE IF Len(rx.data) = 0 THEN TransferErr("No response received")
    ELSE LET response == from_raw(rx.data)
         IN IF ~response.ok THEN TransferErr(response.err)
            ELSE TransferOk(response)

transfer_received(cmd, rx) ==
    IF ~rx.ok THEN TransferErr("USB receive failed or timeout")
    ELSE IF Len(rx.data) = 0 THEN TransferErr("No response received")
    ELSE LET response == from_raw(rx.data)
         IN IF ~response.ok THEN TransferErr(response.err)
            ELSE IF response.cmd_type # cmd.cmd_type
                 THEN TransferErr("Response command type mismatch")
                 ELSE TransferOk(response)

\* variant of the send half that goes on to the receive whatever was sent
transfer_sent_unchecked(req, sent) ==
    TransferOk(DecodeErr(""))

\* the send half: sent is what send_raw returned
transfer_sent(req, sent) ==
    IF ~sent.ok THEN TransferErr("USB send failed")
    ELSE IF sent.n # Len(req) THEN TransferErr("Incomplete command send")
    ELSE TransferOk(DecodeErr(""))

DEFAULT_TIMEOUT_MS == 1000

ERASE_TIMEOUT_MS == 5000

PROGRAM_TIMEOUT_MS == 300

DATA_ERASE_TIMEOUT_MS == 1000

(***************************************************************************)
(* flashing.rs: AndroidFlashing, the session.  `connected` is the          *)
(* transport's connection_handle being Some.                               *)
(***************************************************************************)
NewFlashing ==
    [chip |-> PlaceholderChip, chip_uid |-> <<>>,
     bootloader_version |-> <<0, 0, 0, 0>>, code_flash_protected |-> FALSE,
     connected |-> FALSE]

CHUNK_SIZE == 56

KEY_SEED_LEN == 30

RECURSIVE XorBits(_, _, _)
XorBits(a, b, n) ==
    IF n = 0 THEN 0
    ELSE (IF (a % 2) # (b % 2) THEN 1 ELSE 0) + 2 * XorBits(a \div 2, b \div 2, n - 1)

\* u8 ^ u8 for every pair of bytes
XorTable == [a \in 0..255 |-> [b \in 0..255 |-> XorBits(a, b, 8)]]

\* u8 ^ u8
Xor8(a, b) == XorTable[a][b]

\* fold(0u8, |acc, x| acc.overflowing_add(x).0)
WrappingSum(s) ==
    LET acc[i \in 0..Len(s)] == IF i = 0 THEN 0 ELSE (acc[i - 1] + s[i]) % 256
    IN acc[Len(s)]

\* variant of the key with the chip id added to every byte, not only the last
generate_xor_key_every_byte(s) ==
    LET checksum == WrappingSum(s.chip_uid)
    IN [i \in 1..8 |-> (checksum + s.chip.chip_id) % 256]

\* [checksum; 8] with chip_id added, wrapping, to the last byte
generate_xor_key(s) ==
    LET checksum == WrappingSum(s.chip_uid)
    IN [i \in 1..8 |-> IF i = 8 THEN (checksum + s.chip.chip_id) % 256 ELSE checksum]

generate_key_checksum(s) == WrappingSum(generate_xor_key(s))

\* variant of the transform that adds the key byte instead of XORing it
xor_chunk_add(chunk, xor_key) ==
    [i \in 1..Len(chunk) |-> (chunk[i] + xor_key[((i - 1) % 8) + 1]) % 256]

\* chunk.iter().enumerate().map(|(i, &byte)| byte ^ xor_key[i % 8])
xor_chunk(chunk, xor_key) ==
    [i \in 1..Len(chunk) |-> Xor8(chunk[i], xor_key[((i - 1) % 8) + 1])]

\* variant of the chunking with chunks of 64 bytes
chunk_at_64(data, address) ==
    Slice(data, address, Min(address + 64, Len(data)))

\* data.chunks(CHUNK_SIZE): the chunk that starts at byte offset `address`
chunk_at(data, address) ==
    Slice(data, address, Min(address + CHUNK_SIZE, Len(data)))

\* a u32 as two 16-bit limbs (2^32 is beyond the integers of the checker)
U32(hi, lo) == [hi |-> hi, lo |-> lo]

\* the u32 of a natural below 2^31
ToU32(n) == U32((n \div 65536) % 65536, n % 65536)

\* u32 + k for 0 <= k < 65536: the wrapped sum and whether it overflowed
AddU32(a, k) ==
    LET lo == a.lo + k
        hi == a.hi + (lo \div 65536)
    IN [sum |-> U32(hi % 65536, lo % 65536), overflow |-> hi >= 65536]

\* u32 / d for 64 <= d <= 65536, as a natural
DivU32(a, d) ==
    a.hi * (65536 \div d) + ((a.hi * (65536 % d) + a.lo) \div d)

\* u32 - k for 0 <= k < 65536: the wrapped difference and whether it overflowed
SubU32(a, k) ==
    LET lo == a.lo - k
        hi == a.hi - (IF lo < 0 THEN 1 ELSE 0)
    IN [sum |-> U32(hi % 65536, lo % 65536), overflow |-> hi < 0]

\* flash_firmware: ((len as u32 + sector_size - 1) / sector_size).max(min) on
\* a length given as a u32.  The sum is a u32 sum evaluated from the left,
\* (len + sector_size) - 1: when the addition or the subtraction overflows, a
\* build with overflow checks panics and a build without them wraps.
sectors_needed_u32(chip, len, overflow_checks) ==
    LET added == AddU32(len, sector_size(chip))
        less == SubU32(added.sum, 1)
    IN IF (added.overflow \/ less.overflow) /\ overflow_checks
       THEN [panic |-> TRUE, sectors |-> 0]
       ELSE [panic |-> FALSE,
             sectors |-> Max(DivU32(less.sum, sector_size(chip)),
                             min_erase_sector_number(chip))]

\* the same for the images of a run, whose lengths are far from the overflow
sectors_needed(chip, firmware_len) ==
    sectors_needed_u32(chip, ToU32(firmware_len), FALSE).sectors

(***************************************************************************)
(* What a step of the orchestrator asks for next: one more transfer, the   *)
(* return of the call (Ok or Err with its message and, where the message   *)
(* carries one, the byte address), or a panic.                             *)
(***************************************************************************)
Xfer(step, cmd, timeout) ==
    [kind |-> "xfer", step |-> step, cmd |-> cmd, timeout |-> timeout,
     ok |-> TRUE, err |-> "", addr |-> -1]

RetOk ==
    [kind |-> "ret", step |-> "", cmd |-> Command("none", <<>>), timeout |-> 0,
     ok |-> TRUE, err |-> "", addr |-> -1]

RetErr(e, a) ==
    [kind |-> "ret", step |-> "", cmd |-> Command("none", <<>>), timeout |-> 0,
     ok |-> FALSE, err |-> e, addr |-> a]

Panic(e) ==
    [kind |-> "panic", step |-> "", cmd |-> Command("none", <<>>), timeout |-> 0,
     ok |-> FALSE, err |-> e, addr |-> -1]

\* the outcome of a step: the session, the address local and what comes next
Out(s, address, next) == [sess |-> s, address |-> address, next |-> next]

(***************************************************************************)
(* flashing.rs: initialize = identify_chip; read_chip_config               *)
(***************************************************************************)
\* variant of initialize that reads the configuration without identifying
\* the chip first
initialize_begin_config_first ==
    Xfer("read_chip_config", CmdReadConfig(CFG_MASK_ALL), DEFAULT_TIMEOUT_MS)

initialize_begin == Xfer("identify_chip", CmdIdentify(0, 0), DEFAULT_TIMEOUT_MS)

\* variant of identify_chip that takes the chip from a rejected response too
identify_chip_any_status(s, r) ==
    IF ~r.ok THEN Out(s, 0, RetErr(r.err, -1))
    ELSE IF Len(r.resp.payload) < 2
         THEN Out(s, 0, RetErr("Invalid identification response", -1))
    ELSE Out([s EXCEPT !.chip = find_chip(r.resp.payload[1], r.resp.payload[2])], 0,
             Xfer("read_chip_config", CmdReadConfig(CFG_MASK_ALL), DEFAULT_TIMEOUT_MS))

\* protocol.rs identify_chip and flashing.rs identify_chip, after the transfer
identify_chip(s, r) ==
    IF ~r.ok THEN Out(s, 0, RetErr(r.err, -1))
    ELSE IF ~is_ok(r.resp) THEN Out(s, 0, RetErr("Chip identification failed", -1))
    ELSE IF Len(r.resp.payload) < 2
         THEN Out(s, 0, RetErr("Invalid identification response", -1))
    ELSE Out([s EXCEPT !.chip = find_chip(r.resp.payload[1], r.resp.payload[2])], 0,
             Xfer("read_chip_config", CmdReadConfig(CFG_MASK_ALL), DEFAULT_TIMEOUT_MS))

\* variant of read_chip_config that sets the protected flag whatever the chip
read_chip_config_any_family(s, r) ==
    IF ~r.ok THEN Out(s, 0, RetErr(r.err, -1))
    ELSE IF ~is_ok(r.resp) THEN Out(s, 0, RetOk)
    ELSE LET config_data == r.resp.payload
             n == Len(config_data)
         IN IF n >= 18
            THEN Out([s EXCEPT
                        !.bootloader_version = Slice(config_data, 14, 18),
                        !.code_flash_protected = config_data[3] # 165,
                        !.chip_uid = IF n > 18 THEN Slice(config_data, 18, n) ELSE @],
                     0, RetOk)
            ELSE Out(s, 0, RetOk)

\* variant of read_chip_config for which a rejected read is fatal
read_chip_config_status_fatal(s, r) ==
    IF ~r.ok THEN Out(s, 0, RetErr(r.err, -1))
    ELSE IF ~is_ok(r.resp) THEN Out(s, 0, RetErr("Failed to read chip configuration", -1))
    ELSE LET config_data == r.resp.payload
             n == Len(config_data)
         IN IF n >= 18
            THEN Out([s EXCEPT
                        !.bootloader_version = Slice(config_data, 14, 18),
                        !.code_flash_protected =
                            IF support_code_flash_protect(s.chip) /\ n >= 3
                            THEN config_data[3] # 165
                            ELSE @,
                        !.chip_uid = IF n > 18 THEN Slice(config_data, 18, n) ELSE @],
                     0, RetOk)
            ELSE Out(s, 0, RetOk)

\* flashing.rs read_chip_config, after the transfer
read_chip_config(s, r) ==
    IF ~r.ok THEN Out(s, 0, RetErr(r.err, -1))
    ELSE IF ~is_ok(r.resp) THEN Out(s, 0, RetOk)
    ELSE LET config_data == r.resp.payload
             n == Len(config_data)
         IN IF n >= 18
            THEN Out([s EXCEPT
                        !.bootloader_version = Slice(config_data, 14, 18),
                        !.code_flash_protected =
                            IF support_code_flash_protect(s.chip) /\ n >= 3
                            THEN config_data[3] # 165
                            ELSE @,
                        !.chip_uid = IF n > 18 THEN Slice(config_data, 18, n) ELSE @],
                     0, RetOk)
            ELSE Out(s, 0, RetOk)

(***************************************************************************)
(* flashing.rs: program_flash                                              *)
(***************************************************************************)
\* variant of the terminating command that carries address 0
program_final_at_zero(address) ==
    Xfer("program_final", CmdProgram(0, 0, <<>>), DEFAULT_TIMEOUT_MS)

program_final(address) ==
    Xfer("program_final", CmdProgram(address, 0, <<>>), DEFAULT_TIMEOUT_MS)

\* the loop head: the next chunk's command, or the terminating empty one
program_flash_next(s, data, address, padding) ==
    IF address < Len(data)
    THEN Xfer("program_chunk",
              CmdProgram(address, padding,
                         xor_chunk(chunk_at(data, address), generate_xor_key(s))),
              PROGRAM_TIMEOUT_MS)
    ELSE program_final(address)

\* variant of the loop body that advances the address before it looks at the
\* status, so that a rejected chunk is reported at the address after it
program_flash_chunk_advance_first(s, data, address, padding, r) ==
    LET next_address == address + Len(chunk_at(data, address))
    IN IF ~r.ok THEN Out(s, address, RetErr(r.err, -1))
       ELSE IF ~is_ok(r.resp)
            THEN Out(s, next_address,
                     RetErr("Programming failed at address", next_address))
       ELSE Out(s, next_address, program_flash_next(s, data, next_address, padding))

\* the loop body after the chunk's transfer
program_flash_chunk(s, data, address, padding, r) ==
    IF ~r.ok THEN Out(s, address, RetErr(r.err, -1))
    ELSE IF ~is_ok(r.resp)
         THEN Out(s, address, RetErr("Programming failed at address", address))
    ELSE LET next_address == address + Len(chunk_at(data, address))
         IN Out(s, next_address, program_flash_next(s, data, next_address, padding))

\* after the terminating frame's transfer
program_flash_final(s, address, r) ==
    IF ~r.ok THEN Out(s, address, RetErr(r.err, -1))
    ELSE IF ~is_ok(r.resp)
         THEN Out(s, address, RetErr("Failed to complete programming sequence", -1))
    ELSE Out(s, address, RetOk)

(***************************************************************************)
(* flashing.rs: flash_firmware = [unprotect_flash]; erase_flash;           *)
(* setup_isp_key; program_flash                                            *)
(***************************************************************************)
erase_flash_begin(sectors) == Xfer("erase_flash", CmdErase(sectors), ERASE_TIMEOUT_MS)

flash_firmware_erase(s, data) ==
    erase_flash_begin(sectors_needed(s.chip, Len(data)))

\* variant of flash_firmware that unprotects whatever the protected flag says
flash_firmware_begin_always_unprotect(s, data) ==
    Xfer("unprotect_read", CmdReadConfig(CFG_MASK_RDPR_USER_DATA_WPR),
         DEFAULT_TIMEOUT_MS)

\* variant of flash_firmware that takes an unprotected session as already
\* erased and goes on from the key setup
flash_firmware_begin_skip_erase(s, data) ==
    IF s.code_flash_protected
    THEN Xfer("unprotect_read", CmdReadConfig(CFG_MASK_RDPR_USER_DATA_WPR),
              DEFAULT_TIMEOUT_MS)
    ELSE Xfer("setup_isp_key", CmdIspKey(Zeros(KEY_SEED_LEN)), DEFAULT_TIMEOUT_MS)

flash_firmware_begin(s, data) ==
    IF s.code_flash_protected
    THEN Xfer("unprotect_read", CmdReadConfig(CFG_MASK_RDPR_USER_DATA_WPR),
              DEFAULT_TIMEOUT_MS)
    ELSE flash_firmware_erase(s, data)

\* variant of unprotect_flash's read step that writes back the block from the
\* start of the payload instead of from its third byte
unprotect_flash_read_from_start(s, r) ==
    IF ~r.ok THEN Out(s, 0, RetErr(r.err, -1))
    ELSE IF ~is_ok(r.resp)
         THEN Out(s, 0, RetErr("Failed to read config for unprotect", -1))
    ELSE IF Len(r.resp.payload) < 14
         THEN Out(s, 0, Panic("range end index 14 out of range for slice"))
    ELSE LET read == Slice(r.resp.payload, 0, 12)
             config == [i \in 1..12 |->
                          IF i = 1 THEN 165
                          ELSE IF i = 2 THEN 90
                          ELSE IF i \in 9..12 THEN 255
                          ELSE read[i]]
         IN Out(s, 0, Xfer("unprotect_write",
                           CmdWriteConfig(CFG_MASK_RDPR_USER_DATA_WPR, config),
                           DEFAULT_TIMEOUT_MS))

\* unprotect_flash after the ReadConfig transfer
unprotect_flash_read(s, r) ==
    IF ~r.ok THEN Out(s, 0, RetErr(r.err, -1))
    ELSE IF ~is_ok(r.resp)
         THEN Out(s, 0, RetErr("Failed to read config for unprotect", -1))
    ELSE IF Len(r.resp.payload) < 14
         THEN Out(s, 0, Panic("range end index 14 out of range for slice"))
    ELSE LET read == Slice(r.resp.payload, 2, 14)
             config == [i \in 1..12 |->
                          IF i = 1 THEN 165
                          ELSE IF i = 2 THEN 90
                          ELSE IF i \in 9..12 THEN 255
                          ELSE read[i]]
         IN Out(s, 0, Xfer("unprotect_write",
                           CmdWriteConfig(CFG_MASK_RDPR_USER_DATA_WPR, config),
                           DEFAULT_TIMEOUT_MS))

\* variant of unprotect_flash's write step that clears the protected flag
\* before it looks at the response
unprotect_flash_write_clears_first(s, data, r) ==
    LET s2 == [s EXCEPT !.code_flash_protected = FALSE]
    IN IF ~r.ok THEN Out(s2, 0, RetErr(r.err, -1))
       ELSE IF ~is_ok(r.resp) THEN Out(s2, 0, RetErr("Failed to unprotect flash", -1))
       ELSE Out(s2, 0, flash_firmware_erase(s2, data))

\* unprotect_flash after the WriteConfig transfer, then flash_firmware's erase
unprotect_flash_write(s, data, r) ==
    IF ~r.ok THEN Out(s, 0, RetErr(r.err, -1))
    ELSE IF ~is_ok(r.resp) THEN Out(s, 0, RetErr("Failed to unprotect flash", -1))
    ELSE LET s2 == [s EXCEPT !.code_flash_protected = FALSE]
         IN Out(s2, 0, flash_firmware_erase(s2, data))

\* variant of erase_flash that goes on whatever the status of the response
erase_flash_any_status(s, r, then) ==
    IF ~r.ok THEN Out(s, 0, RetErr(r.err, -1))
    ELSE Out(s, 0, then)

\* erase_flash after the transfer; `then` is what the caller does on Ok
erase_flash(s, r, then) ==
    IF ~r.ok THEN Out(s, 0, RetErr(r.err, -1))
    ELSE IF ~is_ok(r.resp) THEN Out(s, 0, RetErr("Flash erase failed", -1))
    ELSE Out(s, 0, then)

setup_isp_key_begin ==
    Xfer("setup_isp_key", CmdIspKey(Zeros(KEY_SEED_LEN)), DEFAULT_TIMEOUT_MS)

\* variant of setup_isp_key that fails on a checksum mismatch
setup_isp_key_checksum_fatal(s, data, padding, r) ==
    IF ~r.ok THEN Out(s, 0, RetErr(r.err, -1))
    ELSE IF ~is_ok(r.resp) THEN Out(s, 0, RetErr("ISP key setup failed", -1))
    ELSE IF Len(r.resp.payload) > 0 /\ r.resp.payload[1] # generate_key_checksum(s)
         THEN Out(s, 0, RetErr("ISP key checksum mismatch", -1))
    ELSE Out(s, 0, program_flash_next(s, data, 0, padding))

\* setup_isp_key after the transfer (a checksum mismatch is only logged),
\* then program_flash's first command
setup_isp_key(s, data, padding, r) ==
    IF ~r.ok THEN Out(s, 0, RetErr(r.err, -1))
    ELSE IF ~is_ok(r.resp) THEN Out(s, 0, RetErr("ISP key setup failed", -1))
    ELSE Out(s, 0, program_flash_next(s, data, 0, padding))

(***************************************************************************)
(* flashing.rs: verify_firmware                                            *)
(***************************************************************************)
verify_firmware_next(s, data, address, padding) ==
    IF address < Len(data)
    THEN Xfer("verify_chunk",
              CmdVerify(address, padding,
                        xor_chunk(chunk_at(data, address), generate_xor_key(s))),
              DEFAULT_TIMEOUT_MS)
    ELSE RetOk

\* variant that looks at the payload before the status
verify_firmware_chunk_payload_first(s, data, address, padding, r) ==
    IF ~r.ok THEN Out(s, address, RetErr(r.err, -1))
    ELSE IF Len(r.resp.payload) > 0 /\ r.resp.payload[1] # 0
         THEN Out(s, address, RetErr("Verification mismatch at address", address))
    ELSE IF ~is_ok(r.resp)
         THEN Out(s, address, RetErr("Verification failed at address", address))
    ELSE LET next_address == address + Len(chunk_at(data, address))
         IN Out(s, next_address, verify_firmware_next(s, data, next_address, padding))

\* variant of the verify loop that does not advance to the next chunk
verify_firmware_chunk_no_advance(s, data, address, padding, r) ==
    IF ~r.ok THEN Out(s, address, RetErr(r.err, -1))
    ELSE IF ~is_ok(r.resp)
         THEN Out(s, address, RetErr("Verification failed at address", address))
    ELSE IF Len(r.resp.payload) > 0 /\ r.resp.payload[1] # 0
         THEN Out(s, address, RetErr("Verification mismatch at address", address))
    ELSE Out(s, address, verify_firmware_next(s, data, address, padding))

verify_firmware_chunk(s, data, address, padding, r) ==
    IF ~r.ok THEN Out(s, address, RetErr(r.err, -1))
    ELSE IF ~is_ok(r.resp)
         THEN Out(s, address, RetErr("Verification failed at address", address))
    ELSE IF Len(r.resp.payload) > 0 /\ r.resp.payload[1] # 0
         THEN Out(s, address, RetErr("Verification mismatch at address", address))
    ELSE LET next_address == address + Len(chunk_at(data, address))
         IN Out(s, next_address, verify_firmware_next(s, data, next_address, padding))

(***************************************************************************)
(* flashing.rs: reset_chip, erase_eeprom                                   *)
(***************************************************************************)
reset_chip_begin == Xfer("reset_chip", CmdIspEnd(1), DEFAULT_TIMEOUT_MS)

\* variant of reset_chip that fails on a non-zero status
reset_chip_status_fatal(s, r) ==
    IF ~r.ok THEN Out(s, 0, RetErr(r.err, -1))
    ELSE IF ~is_ok(r.resp) THEN Out(s, 0, RetErr("Reset failed", -1))
    ELSE Out(s, 0, RetOk)

\* a non-zero status is only logged
reset_chip(s, r) ==
    IF ~r.ok THEN Out(s, 0, RetErr(r.err, -1)) ELSE Out(s, 0, RetOk)

\* variant of erase_eeprom that sends its command whatever the EEPROM size
erase_eeprom_begin_unchecked(s) ==
    Xfer("erase_eeprom",
         CmdDataErase(Max(s.chip.eeprom_size \div 1024, 1) % 65536),
         DATA_ERASE_TIMEOUT_MS)

erase_eeprom_begin(s) ==
    IF s.chip.eeprom_size = 0
    THEN RetErr("Chip does not support EEPROM", -1)
    ELSE Xfer("erase_eeprom",
              CmdDataErase(Max(s.chip.eeprom_size \div 1024, 1) % 65536),
              DATA_ERASE_TIMEOUT_MS)

erase_eeprom(s, r) ==
    IF ~r.ok THEN Out(s, 0, RetErr(r.err, -1))
    ELSE IF ~is_ok(r.resp) THEN Out(s, 0, RetErr("EEPROM erase failed", -1))
    ELSE Out(s, 0, RetOk)

\* lib.rs eraseChip: the whole chip
erase_chip_sectors(chip) ==
    (chip.flash_size + sector_size(chip) - 1) \div sector_size(chip)

(***************************************************************************)
(* State.                                                                  *)
(***************************************************************************)
VARIABLES
    codec,          \* the codec under test: the operation, its input and output
    scope,          \* "session": one caller, one session, every reply the device
                    \* can give; "process": concurrent callers and sessions
    instances,      \* FLASHER_INSTANCES: handle -> session
    next_handle,    \* NEXT_HANDLE
    lock_instances, \* the thread that holds FLASHER_INSTANCES' mutex, or 0
    lock_next,      \* the thread that holds NEXT_HANDLE's mutex, or 0
    poisoned,       \* FLASHER_INSTANCES' mutex is poisoned (a holder panicked)
    aborted,        \* the process was aborted by a panic
    link,           \* handle -> commands sent on the session's transport
                    \* whose receive has not returned yet
    th              \* per thread: the JNI call it is in and that call's locals

vars == <<codec, scope, instances, next_handle, lock_instances, lock_next,
          poisoned, aborted, link, th>>

NoCommand == Command("none", <<>>)

CodecIdle == [op |-> "none", cmd |-> NoCommand, raw |-> <<>>, resp |-> DecodeErr("")]

sysvars == <<scope, instances, next_handle, lock_instances, lock_next,
             poisoned, aborted, link, th>>

Threads == 1..NumThreads

Handles == 1..MaxHandles

\* the callers that run: one in a session-scope run
Callers == IF scope = "session" THEN {1} ELSE Threads

\* a session's transport is named by its handle, and by its opener (negated)
\* while openDevice still owns it
LinkKeys == Handles \cup {-t : t \in Threads}

NoTransfer == TransferErr("")

NoRx == [ok |-> FALSE, data |-> <<>>, abort |-> FALSE]

IdleThread ==
    [pc |-> "idle", op |-> "none", handle |-> 0, firmware |-> <<>>,
     flasher |-> NewFlashing, entry |-> NewFlashing,
     step |-> "", cmd |-> Command("none", <<>>), timeout |-> 0, address |-> 0,
     issued |-> <<>>, rx |-> NoRx, xfer |-> NoTransfer,
     ret |-> 0, err |-> "", err_addr |-> -1,
     prior |-> [handle |-> 0, mid |-> FALSE, entry |-> NewFlashing]]

\* the system before any call
Boot(sc) ==
    /\ scope = sc
    /\ instances = <<>>
    /\ next_handle = 1
    /\ lock_instances = 0
    /\ lock_next = 0
    /\ poisoned = FALSE
    /\ aborted = FALSE
    /\ link = [k \in LinkKeys |-> 0]
    /\ th = [t \in Threads |-> IdleThread]

Quiet == Boot("codec")

(***************************************************************************)
(* The callers' inputs and the device's replies.  A session-scope run      *)
(* draws them widely (images of several lengths, protected and unprotected *)
(* devices, rejected commands, frames of a corrupted link); a              *)
(* process-scope run explores the interleavings of the callers against     *)
(* unprotected devices that answer with status 0x00 or not at all.         *)
(***************************************************************************)
\* byte i of the image
FwByte(i) == (i * 37 + 11) % 256

Firmware(n) == [i \in 1..n |-> FwByte(i - 1)]

FirmwareLens ==
    IF scope = "session"
    THEN {0, 1, 100, 130} \cup {CHUNK_SIZE * k : k \in 1..MaxChunks}
    ELSE {1}

\* rand::random::<u8>()
Paddings == IF scope = "session" THEN {0, 195} ELSE {195}

\* (vendor id, product id) pairs a caller passes to openDevice
UsbIds == {<<6790, 21984>>, <<6790, 29987>>, <<1155, 22336>>}

\* a response frame as the device builds it
Frame(k, status, payload) == <<CmdCode(k), Len(payload), status, 0>> \o payload

\* the configuration block the device reports: two leading bytes, RDPR and
\* the rest of the three registers, the bootloader version, the UID
ConfigImage(rdpr) ==
    <<255, 255, rdpr, 90, 60, 195, 1, 2, 3, 4, 5, 6, 7, 8>> \o <<0, 2, 9, 0>>
    \o <<205, 171, 18, 52, 86, 120, 154, 188>>

ConfigLens == IF scope = "session" THEN {0, 13, 14, 18, 20, 26} ELSE {26}

ReplyPayloads(cmd, s) ==
    CASE cmd.cmd_type = "Identify" ->
            IF scope = "session"
            THEN {<<112, 23>>, <<130, 130>>, <<48, 33>>, <<9, 9>>, <<112>>}
            ELSE {<<112, 23>>}
      [] cmd.cmd_type = "ReadConfig" ->
            {SubSeq(ConfigImage(rdpr), 1, n) :
                rdpr \in IF scope = "session" THEN {165, 0} ELSE {165}, n \in ConfigLens}
      [] cmd.cmd_type = "IspKey" ->
            IF scope = "session"
            THEN {<<>>, <<generate_key_checksum(s)>>,
                  <<(generate_key_checksum(s) + 1) % 256>>}
            ELSE {<<generate_key_checksum(s)>>}
      [] cmd.cmd_type = "Verify" ->
            IF scope = "session" THEN {<<>>, <<0>>, <<1>>} ELSE {<<0>>}
      [] OTHER ->
            IF scope = "session" THEN {<<>>, <<0, 0>>} ELSE {<<>>}

\* a kind other than the command's
OtherKind(k) == IF k = "Identify" THEN "ReadConfig" ELSE "Identify"

\* well-formed frames of the command's kind, and the frames of a corrupted or
\* desynchronised link: another kind, an unknown kind, a short or truncated frame
ReplyFrames(cmd, s) ==
    {Frame(cmd.cmd_type, st, p) :
        st \in IF scope = "session" THEN {0, 1} ELSE {0}, p \in ReplyPayloads(cmd, s)}
    \cup (IF scope = "session"
          THEN {Frame(OtherKind(cmd.cmd_type), st, <<0, 0>>) : st \in {0, 1}}
               \cup {<<CmdCode(cmd.cmd_type)>>, <<0, 0, 0, 0>>,
                     <<CmdCode(cmd.cmd_type), 1, 0, 0>>}
          ELSE {})

\* what bulkTransfer on the IN endpoint returns: a count and the buffer
BulkIn(cmd, s) ==
    {[n |-> Len(f), buf |-> f] : f \in ReplyFrames(cmd, s)}
    \cup {[n |-> -1, buf |-> <<>>]}
    \cup (IF scope = "session" THEN {[n |-> 0, buf |-> <<>>]} ELSE {})

\* what bulkTransfer on the OUT endpoint returns
BulkOut(req) ==
    {Len(req), -1} \cup (IF scope = "session" THEN {Len(req) - 1} ELSE {})

(***************************************************************************)
(* The session a thread works on, and its transport.                       *)
(***************************************************************************)
\* the history of a call (the commands it issued, the last reply, the session
\* at entry) is recorded in session-scope runs
Note(x, none) == IF scope = "session" THEN x ELSE none

OwnsSession(t) == th[t].op \in {"openDevice", "closeDevice"}

Session(t) == IF OwnsSession(t) THEN th[t].flasher ELSE instances[th[t].handle]

LinkKey(t) == IF th[t].op = "openDevice" THEN -t ELSE th[t].handle

\* the new thread record and session written back
Store(t, me, s) ==
    IF OwnsSession(t)
    THEN /\ th' = [th EXCEPT ![t] = [me EXCEPT !.flasher = s]]
         /\ UNCHANGED instances
    ELSE /\ th' = [th EXCEPT ![t] = me]
         /\ instances' = [instances EXCEPT ![th[t].handle] = s]

Unlock(t) == IF lock_instances = t THEN 0 ELSE lock_instances

\* the thread record of a call that has returned: its result and, in a
\* session-scope run, the history of the call
Returned(me, ret, err, addr) ==
    IF scope = "session"
    THEN [me EXCEPT !.pc = "returned", !.ret = ret, !.err = err, !.err_addr = addr,
                    !.flasher = NewFlashing]
    ELSE [IdleThread EXCEPT !.pc = "returned", !.ret = ret]

(***************************************************************************)
(* A step of the orchestrator has decided what comes next (o.next): the    *)
(* next command is queued for the send, or the JNI entry point returns     *)
(* (dropping the guard of FLASHER_INSTANCES it holds), or the thread       *)
(* panics.  A panic unwinds through the guard, which poisons the mutex;    *)
(* at the extern "C" boundary the process is aborted or, where the build   *)
(* lets the unwind through, the thread never returns to its caller.        *)
(***************************************************************************)
Proceed(t, me, o) ==
    CASE o.next.kind = "xfer" ->
            /\ Store(t, [me EXCEPT !.pc = "send", !.step = o.next.step,
                                   !.cmd = o.next.cmd, !.timeout = o.next.timeout,
                                   !.address = o.address], o.sess)
            /\ UNCHANGED <<lock_instances, poisoned, aborted>>
      [] o.next.kind = "ret" /\ th[t].op = "openDevice" /\ o.next.ok ->
            /\ Store(t, [me EXCEPT !.pc = "lock_next", !.step = ""], o.sess)
            /\ UNCHANGED <<lock_instances, poisoned, aborted>>
      [] o.next.kind = "ret" /\ th[t].op = "openDevice" /\ ~o.next.ok ->
            /\ th' = [th EXCEPT ![t] = Returned(me, -1, o.next.err, o.next.addr)]
            /\ UNCHANGED <<instances, lock_instances, poisoned, aborted>>
      [] o.next.kind = "ret" /\ th[t].op # "openDevice" ->
            /\ Store(t, Returned([me EXCEPT !.address = o.address],
                                 IF o.next.ok THEN 1 ELSE 0, o.next.err, o.next.addr),
                     o.sess)
            /\ lock_instances' = Unlock(t)
            /\ UNCHANGED <<poisoned, aborted>>
      [] o.next.kind = "panic" ->
            /\ Store(t, [me EXCEPT !.pc = "panicked", !.err = o.next.err], o.sess)
            /\ lock_instances' = Unlock(t)
            /\ poisoned' = (poisoned \/ lock_instances = t)
            /\ aborted' \in BOOLEAN

(***************************************************************************)
(* The step a transfer belongs to, continued with the transfer's result.   *)
(***************************************************************************)
StepOut(t, r, padding) ==
    LET me == th[t]
        s == Session(t)
    IN CASE me.step = "identify_chip" -> identify_chip(s, r)
         [] me.step = "read_chip_config" -> read_chip_config(s, r)
         [] me.step = "unprotect_read" -> unprotect_flash_read(s, r)
         [] me.step = "unprotect_write" -> unprotect_flash_write(s, me.firmware, r)
         [] me.step = "erase_flash" ->
                erase_flash(s, r, IF me.op = "flashFirmware"
                                  THEN setup_isp_key_begin ELSE RetOk)
         [] me.step = "setup_isp_key" -> setup_isp_key(s, me.firmware, padding, r)
         [] me.step = "program_chunk" ->
                program_flash_chunk(s, me.firmware, me.address, padding, r)
         [] me.step = "program_final" -> program_flash_final(s, me.address, r)
         [] me.step = "verify_chunk" ->
                verify_firmware_chunk(s, me.firmware, me.address, padding, r)
         [] me.step = "reset_chip" -> reset_chip(s, r)
         [] me.step = "erase_eeprom" -> erase_eeprom(s, r)

Running(t) == ~aborted /\ t \in Callers

\* the JVM aborts the process inside a JNI call: no thread runs any more
JvmAbort ==
    /\ aborted' = TRUE
    /\ UNCHANGED <<instances, lock_instances, poisoned, link, th>>

\* the locals of a call that starts
Call(op, handle, firmware) ==
    [IdleThread EXCEPT !.op = op, !.handle = handle, !.firmware = firmware]

\* an entry of a call's history: a command handed to the transport, the
\* receive timeout it was issued with and how its transfer ended ("pending"
\* while the response is awaited; status is the response's status byte; sent
\* is what bulkTransfer returned for the command's frame)
Issued(cmd, timeout, r, pending, sent) ==
    [cmd |-> cmd, timeout |-> timeout, sent |-> sent,
     result |-> IF pending THEN "pending" ELSE IF r.ok THEN "ok" ELSE "err",
     status |-> IF ~pending /\ r.ok THEN r.resp.status ELSE -1]

\* the entry point has returned: its caller takes the result and is free to
\* make the next call.  In a session-scope run the caller remembers (prior)
\* that the call was a flash that failed after it had reached the device, on
\* which handle, with which session at entry, and whether it failed past the
\* first Program chunk; a flash
\* it calls next on that handle carries the note, any other call drops it.
Collect(t) ==
    /\ Running(t)
    /\ th[t].pc = "returned"
    /\ th' = [th EXCEPT ![t] =
                IF /\ scope = "session"
                   /\ th[t].op = "flashFirmware"
                   /\ th[t].ret = 0
                   /\ th[t].issued # <<>>
                THEN [IdleThread EXCEPT
                        !.prior = [handle |-> th[t].handle,
                                   entry |-> th[t].entry,
                                   mid |-> Cardinality(
                                       {i \in DOMAIN th[t].issued :
                                          th[t].issued[i].cmd.cmd_type = "Program"})
                                       >= 2]]
                ELSE IdleThread]
    /\ UNCHANGED <<codec, scope, instances, next_handle, lock_instances, lock_next,
                   poisoned, aborted, link>>

(***************************************************************************)
(* protocol.rs transfer_with_timeout, first half: encode and send_raw.     *)
(***************************************************************************)
Send(t) ==
    /\ Running(t)
    /\ th[t].pc = "send"
    /\ LET req == into_raw(th[t].cmd)
       IN \E n \in BulkOut(req), padding \in Paddings, jvm \in StaleRef :
            LET sent == send_raw(Session(t).connected, req, n, jvm)
                r == transfer_sent(req, sent)
                me == [th[t] EXCEPT
                         !.issued = Note(Append(@, Issued(th[t].cmd, th[t].timeout, r,
                                                          r.ok, n)), <<>>)]
            IN IF sent.abort
               THEN JvmAbort
               ELSE IF r.ok
               THEN /\ th' = [th EXCEPT ![t] = [me EXCEPT !.pc = "recv"]]
                    /\ link' = [link EXCEPT ![LinkKey(t)] = @ + 1]
                    /\ UNCHANGED <<instances, lock_instances, poisoned, aborted>>
               ELSE /\ Proceed(t, [me EXCEPT !.rx = NoRx, !.xfer = Note(r, NoTransfer)],
                               StepOut(t, r, padding))
                    /\ UNCHANGED link
    /\ UNCHANGED <<codec, scope, next_handle, lock_next>>

(***************************************************************************)
(* transfer_with_timeout, second half: recv_raw, decode, kind check; then  *)
(* the caller's code up to its next transfer or its return.                *)
(***************************************************************************)
Receive(t, step) ==
    /\ Running(t)
    /\ th[t].pc = "recv"
    /\ th[t].step = step
    /\ \E x \in BulkIn(th[t].cmd, Session(t)), padding \in Paddings, jvm \in StaleRef :
         LET rx == recv_raw(Session(t).connected, x.n, x.buf, jvm)
             r == transfer_received(th[t].cmd, rx)
             me == [th[t] EXCEPT
                      !.rx = Note(rx, NoRx),
                      !.xfer = Note(r, NoTransfer),
                      !.issued = Note([@ EXCEPT ![Len(@)] =
                                         Issued(th[t].cmd, th[t].timeout, r, FALSE,
                                                @.sent)], <<>>)]
         IN IF rx.abort
            THEN JvmAbort
            ELSE /\ Proceed(t, me, StepOut(t, r, padding))
                 /\ link' = [link EXCEPT ![LinkKey(t)] = @ - 1]
    /\ UNCHANGED <<codec, scope, next_handle, lock_next>>

RecvIdentify(t) == Receive(t, "identify_chip")

RecvReadConfig(t) == Receive(t, "read_chip_config")

RecvUnprotectRead(t) == Receive(t, "unprotect_read")

RecvUnprotectWrite(t) == Receive(t, "unprotect_write")

RecvErase(t) == Receive(t, "erase_flash")

RecvIspKey(t) == Receive(t, "setup_isp_key")

RecvProgramChunk(t) == Receive(t, "program_chunk")

RecvProgramFinal(t) == Receive(t, "program_final")

RecvVerifyChunk(t) == Receive(t, "verify_chunk")

RecvReset(t) == Receive(t, "reset_chip")

RecvEraseEeprom(t) == Receive(t, "erase_eeprom")

(***************************************************************************)
(* lib.rs: openDevice                                                      *)
(***************************************************************************)
\* opens that have not taken their handle yet
OpensPending ==
    Cardinality({u \in Threads :
        th[u].op = "openDevice"
        /\ th[u].pc \in {"transport_init", "send", "recv", "lock_next", "take_handle"}})

OpenDevice(t) ==
    /\ Running(t)
    /\ th[t].pc = "idle"
    /\ next_handle + OpensPending <= MaxHandles
    /\ scope = "session" => DOMAIN instances = {}
    /\ \E id \in UsbIds :
         th' = [th EXCEPT ![t] =
                  IF is_supported_device(id[1], id[2])
                  THEN [Call("openDevice", 0, <<>>) EXCEPT !.pc = "transport_init"]
                  ELSE Returned(Call("openDevice", 0, <<>>), -1, "Unsupported device", -1)]
    /\ UNCHANGED <<codec, scope, instances, next_handle, lock_instances, lock_next,
                   poisoned, aborted, link>>

\* flashing.rs initialize: transport.initialize, then identify_chip's transfer
TransportInitialize(t) ==
    /\ Running(t)
    /\ th[t].pc = "transport_init"
    /\ \E ok \in BOOLEAN :
         IF ok
         THEN Proceed(t, th[t], Out([th[t].flasher EXCEPT !.connected = TRUE], 0,
                                    initialize_begin))
         ELSE Proceed(t, th[t], Out(th[t].flasher, 0,
                                    RetErr("USB transport initialization failed", -1)))
    /\ UNCHANGED <<codec, scope, next_handle, lock_next, link>>

\* NEXT_HANDLE.lock()
LockNext(t) ==
    /\ Running(t)
    /\ th[t].pc = "lock_next"
    /\ lock_next = 0
    /\ lock_next' = t
    /\ th' = [th EXCEPT ![t].pc = "take_handle"]
    /\ UNCHANGED <<codec, scope, instances, next_handle, lock_instances,
                   poisoned, aborted, link>>

\* variant that hands out the counter's value without advancing the counter
TakeHandleNoAdvance(t) ==
    /\ Running(t)
    /\ th[t].pc = "take_handle"
    /\ lock_next' = 0
    /\ th' = [th EXCEPT ![t].handle = next_handle, ![t].pc = "lock"]
    /\ UNCHANGED <<codec, scope, instances, next_handle, lock_instances, poisoned,
                   aborted, link>>

\* handle = *next_handle; *next_handle += 1; the guard is dropped
TakeHandle(t) ==
    /\ Running(t)
    /\ th[t].pc = "take_handle"
    /\ next_handle' = next_handle + 1
    /\ lock_next' = 0
    /\ th' = [th EXCEPT ![t].handle = next_handle, ![t].pc = "lock"]
    /\ UNCHANGED <<codec, scope, instances, lock_instances, poisoned, aborted, link>>

\* instances.insert(handle, flasher); the guard is dropped; return handle
Insert(t) ==
    /\ Running(t)
    /\ th[t].pc = "locked"
    /\ th[t].op = "openDevice"
    /\ instances' = [h \in DOMAIN instances \cup {th[t].handle} |->
                       IF h = th[t].handle THEN th[t].flasher ELSE instances[h]]
    /\ link' = [link EXCEPT ![th[t].handle] = link[-t], ![-t] = 0]
    /\ lock_instances' = 0
    /\ th' = [th EXCEPT ![t] = Returned(th[t], th[t].handle, "", -1)]
    /\ UNCHANGED <<codec, scope, next_handle, lock_next, poisoned, aborted>>

(***************************************************************************)
(* lib.rs: the entry points that take a handle                             *)
(***************************************************************************)
HandleOps ==
    {"closeDevice", "identifyChip", "flashFirmware", "eraseChip", "verifyFirmware",
     "resetChip"}

\* identifyChip after the lookup: get_chip_info() as a Java string (a
\* non-null return), or null when env.new_string fails
identify_chip_info(created) ==
    IF created THEN RetOk ELSE RetErr("Failed to create Java string", -1)

\* the entry point up to FLASHER_INSTANCES.lock(); convert_byte_array may fail
CallOp(t) ==
    /\ Running(t)
    /\ th[t].pc = "idle"
    /\ \E op \in HandleOps, h \in Handles,
          converted \in IF scope = "session" THEN BOOLEAN ELSE {TRUE} :
       \E n \in IF op \in {"flashFirmware", "verifyFirmware"} THEN FirmwareLens ELSE {0} :
         /\ op \notin {"flashFirmware", "verifyFirmware"} => converted
         /\ th' = [th EXCEPT ![t] =
                     IF converted
                     THEN [Call(op, h, Firmware(n)) EXCEPT
                             !.pc = "lock",
                             !.prior = IF op = "flashFirmware"
                                          /\ th[t].prior.handle = h
                                       THEN th[t].prior ELSE @]
                     ELSE Returned(Call(op, h, <<>>), 0,
                                   "Failed to convert firmware data", -1)]
    /\ UNCHANGED <<codec, scope, instances, next_handle, lock_instances, lock_next,
                   poisoned, aborted, link>>

\* variant without mutual exclusion between the orchestrator calls: a thread
\* that finds the mutex held by a thread in the middle of a transfer goes on
\* beside it instead of waiting (closeDevice still waits)
LockInstancesNoWait(t) ==
    /\ Running(t)
    /\ th[t].pc = "lock"
    /\ IF lock_instances = 0 THEN TRUE
       ELSE /\ th[t].op # "closeDevice"
            /\ th[lock_instances].pc \in {"send", "recv"}
    /\ th' = [th EXCEPT ![t].pc = "locked"]
    /\ lock_instances' = IF lock_instances = 0 THEN t ELSE lock_instances
    /\ UNCHANGED <<codec, scope, instances, next_handle, lock_next, poisoned,
                   aborted, link>>

\* FLASHER_INSTANCES.lock().unwrap(): blocks while another thread holds the
\* mutex, panics when it is poisoned
LockInstances(t) ==
    /\ Running(t)
    /\ th[t].pc = "lock"
    /\ lock_instances = 0
    /\ IF poisoned
       THEN /\ th' = [th EXCEPT ![t].pc = "panicked", ![t].err = "PoisonError"]
            /\ aborted' \in BOOLEAN
            /\ UNCHANGED lock_instances
       ELSE /\ th' = [th EXCEPT ![t].pc = "locked"]
            /\ lock_instances' = t
            /\ UNCHANGED aborted
    /\ UNCHANGED <<codec, scope, instances, next_handle, lock_next, poisoned, link>>

\* instances.get_mut(&handle) and the orchestrator call up to its first transfer
Begin(t) ==
    /\ Running(t)
    /\ th[t].pc = "locked"
    /\ th[t].op \in HandleOps \ {"closeDevice"}
    /\ IF th[t].handle \notin DOMAIN instances
       THEN /\ th' = [th EXCEPT ![t] = Returned(th[t], 0, "Invalid device handle", -1)]
            /\ lock_instances' = 0
            /\ UNCHANGED <<instances, poisoned, aborted>>
       ELSE LET s == instances[th[t].handle]
                me == [th[t] EXCEPT !.entry = Note(s, NewFlashing)]
            IN \E padding \in Paddings,
                  created \in IF scope = "session" THEN BOOLEAN ELSE {TRUE} :
                 Proceed(t, me, Out(s, 0,
                    CASE me.op = "identifyChip" -> identify_chip_info(created)
                      [] me.op = "flashFirmware" -> flash_firmware_begin(s, me.firmware)
                      [] me.op = "eraseChip" -> erase_flash_begin(erase_chip_sectors(s.chip))
                      [] me.op = "verifyFirmware" ->
                            verify_firmware_next(s, me.firmware, 0, padding)
                      [] me.op = "resetChip" -> reset_chip_begin))
    /\ UNCHANGED <<codec, scope, next_handle, lock_next, link>>

\* variant of closeDevice that looks the session up and leaves it in the map
RemoveKeepsSession(t) ==
    /\ Running(t)
    /\ th[t].pc = "locked"
    /\ th[t].op = "closeDevice"
    /\ IF th[t].handle \notin DOMAIN instances
       THEN /\ th' = [th EXCEPT ![t] = Returned(th[t], 0, "Invalid device handle", -1)]
            /\ lock_instances' = 0
       ELSE /\ th' = [th EXCEPT ![t].pc = "close_transport",
                                ![t].flasher = instances[th[t].handle],
                                ![t].entry = Note(instances[th[t].handle], NewFlashing)]
            /\ UNCHANGED lock_instances
    /\ UNCHANGED <<codec, scope, instances, next_handle, lock_next, poisoned, aborted,
                   link>>

\* closeDevice: instances.remove(&handle)
Remove(t) ==
    /\ Running(t)
    /\ th[t].pc = "locked"
    /\ th[t].op = "closeDevice"
    /\ IF th[t].handle \notin DOMAIN instances
       THEN /\ th' = [th EXCEPT ![t] = Returned(th[t], 0, "Invalid device handle", -1)]
            /\ lock_instances' = 0
            /\ UNCHANGED instances
       ELSE /\ th' = [th EXCEPT ![t].pc = "close_transport",
                                ![t].flasher = instances[th[t].handle],
                                ![t].entry = Note(instances[th[t].handle], NewFlashing)]
            /\ instances' = [h \in DOMAIN instances \ {th[t].handle} |-> instances[h]]
            /\ UNCHANGED lock_instances
    /\ UNCHANGED <<codec, scope, next_handle, lock_next, poisoned, aborted, link>>

\* closeDevice: flasher.close(), i.e. transport.close(); release_interface may
\* fail; the guard is dropped on either return
CloseTransport(t) ==
    /\ Running(t)
    /\ th[t].pc = "close_transport"
    /\ \E released \in BOOLEAN, jvm \in StaleRef :
         LET closed == close(th[t].flasher.connected, released, jvm)
         IN IF closed.abort
            THEN JvmAbort
            ELSE /\ th' = [th EXCEPT ![t] =
                             IF closed.ok
                             THEN Returned(th[t], 1, "", -1)
                             ELSE Returned(th[t], 0, "Error closing flasher", -1)]
                 /\ lock_instances' = 0
                 /\ UNCHANGED <<instances, poisoned, aborted, link>>
    /\ UNCHANGED <<codec, scope, next_handle, lock_next>>

(***************************************************************************)
(* flashing.rs erase_eeprom, which no JNI entry point calls: called on the *)
(* session directly.                                                       *)
(***************************************************************************)
CallEraseEeprom(t) ==
    /\ Running(t)
    /\ scope = "session"
    /\ th[t].pc = "idle"
    /\ \E h \in DOMAIN instances :
         th' = [th EXCEPT ![t] = [Call("eraseEeprom", h, <<>>) EXCEPT !.pc = "direct"]]
    /\ UNCHANGED <<codec, scope, instances, next_handle, lock_instances, lock_next,
                   poisoned, aborted, link>>

BeginEraseEeprom(t) ==
    /\ Running(t)
    /\ th[t].pc = "direct"
    /\ LET s == instances[th[t].handle]
       IN Proceed(t, [th[t] EXCEPT !.entry = s], Out(s, 0, erase_eeprom_begin(s)))
    /\ UNCHANGED <<codec, scope, next_handle, lock_next, link>>

(***************************************************************************)
(* The system: the JNI entry points called by concurrent threads, and, for *)
(* one session on its own, the orchestrator's whole interface.             *)
(***************************************************************************)
EntryStep(t) ==
    \/ OpenDevice(t)
    \/ TransportInitialize(t)
    \/ Send(t)
    \/ RecvIdentify(t)
    \/ RecvReadConfig(t)
    \/ LockNext(t)
    \/ TakeHandle(t)
    \/ LockInstances(t)
    \/ Insert(t)
    \/ CallOp(t)
    \/ Begin(t)
    \/ RecvErase(t)
    \/ RecvIspKey(t)
    \/ RecvProgramChunk(t)
    \/ RecvProgramFinal(t)
    \/ RecvVerifyChunk(t)
    \/ RecvReset(t)
    \/ Remove(t)
    \/ CloseTransport(t)
    \/ Collect(t)

\* with the unprotect of a session whose flash is read-protected
JniStep(t) ==
    \/ EntryStep(t)
    \/ RecvUnprotectRead(t)
    \/ RecvUnprotectWrite(t)

Init ==
    /\ codec = CodecIdle
    /\ Boot("session")

Next ==
    \E t \in Threads :
        \/ JniStep(t)
        \/ CallEraseEeprom(t)
        \/ BeginEraseEeprom(t)
        \/ RecvEraseEeprom(t)

Spec == Init /\ [][Next]_vars

InitJni ==
    /\ codec = CodecIdle
    /\ Boot("process")

\* the devices of a process-scope run are not read-protected
NextJni == \E t \in Threads : EntryStep(t)

SpecJni == InitJni /\ [][NextJni]_vars

(***************************************************************************)
(* The codec on its own: encode a command and decode the bytes, or decode  *)
(* an arbitrary buffer.                                                    *)
(***************************************************************************)
PayloadBytes == {0, 165}

\* commands of every kind with arbitrary payloads, the constructors' own, and
\* two whose payload is longer than the length byte can tell (256 and 300)
CodecCommands ==
    {Command(k, p) : k \in CommandTypes, p \in SeqsUpTo(PayloadBytes, MaxPayloadLen)}
    \cup {CmdIdentify(0, 0), CmdErase(1), CmdErase(258), CmdReadConfig(31),
          CmdIspEnd(1), CmdDataErase(32), CmdDataRead(56, 8),
          CmdProgram(56, 90, <<1, 2>>), CmdVerify(0, 0, <<>>),
          CmdWriteConfig(7, <<165, 90>>), CmdDataProgram(0, 1, <<255>>),
          CmdIspKey(Zeros(30)),
          CmdProgram(0, 0, Zeros(251)), CmdIspKey(Zeros(300))}

HeaderKindBytes == {0, 160, 161, 165, 171, 172}

HeaderStatusBytes == {0, 1, 255}

HeaderReservedBytes == {0, 90}

FullBuffers ==
    {<<k, l, s, r>> \o t :
        k \in HeaderKindBytes, l \in 0..(MaxPayloadLen + 1),
        s \in HeaderStatusBytes, r \in HeaderReservedBytes,
        t \in SeqsUpTo(PayloadBytes, MaxPayloadLen + 1)}

CodecBuffers ==
    FullBuffers \cup SeqsUpTo(HeaderKindBytes, 3)

\* the inputs: a command to encode, or a received buffer to decode
CodecInit ==
    /\ \/ \E cmd \in CodecCommands :
            codec = [CodecIdle EXCEPT !.op = "command", !.cmd = cmd]
       \/ \E raw \in CodecBuffers :
            codec = [CodecIdle EXCEPT !.op = "buffer", !.raw = raw]
    /\ Quiet

\* Command::into_raw applied to the command
CodecEncode ==
    /\ codec.op = "command"
    /\ codec' = [codec EXCEPT !.op = "encoded", !.raw = into_raw(codec.cmd)]
    /\ UNCHANGED sysvars

\* Response::from_raw applied to the bytes: the encoded command's ("roundtrip")
\* or the received buffer's ("decoded")
CodecDecode ==
    /\ codec.op \in {"encoded", "buffer"}
    /\ codec' = [codec EXCEPT
                   !.op = IF codec.op = "encoded" THEN "roundtrip" ELSE "decoded",
                   !.resp = from_raw(codec.raw)]
    /\ UNCHANGED sysvars

CodecNext == CodecEncode \/ CodecDecode

SpecCodec == CodecInit /\ [][CodecNext]_vars

(***************************************************************************)
(* The pure functions of the registry and of the orchestrator on their     *)
(* own: an input is drawn and the function is applied to it.               *)
(***************************************************************************)
\* the bytes of the 13 keys of the table, and two that are in no key
LookupChipIds == {ChipTable[i].chip_id : i \in 1..Len(ChipTable)} \cup {0, 255}

LookupDeviceTypes == {ChipTable[i].device_type : i \in 1..Len(ChipTable)} \cup {0, 255}

\* firmware lengths as u32: 0, 1, around one and two sectors, 65536,
\* 2^31 - 1, and the last four lengths of the range around 2^32 - 1023
SectorLens ==
    {U32(0, 0), U32(0, 1), U32(0, 1023), U32(0, 1024), U32(0, 1025), U32(0, 2048),
     U32(1, 0), U32(32767, 65535), U32(65535, 64511), U32(65535, 64512),
     U32(65535, 64513), U32(65535, 65535)}

SectorChips ==
    {ChipTable[i] : i \in 1..Len(ChipTable)} \cup {UnknownChip(255, 255)}

\* chunks of every length data.chunks(CHUNK_SIZE) can yield, and the empty one
XorChunks ==
    {[i \in 1..n |-> b] : n \in 0..CHUNK_SIZE, b \in {0, 255}}
    \cup {Firmware(n) : n \in 0..CHUNK_SIZE}

XorUids == {<<>>, <<255, 1>>, <<200, 100>>, <<205, 171, 18, 52, 86, 120, 154, 188>>}

XorChipIds == {0, 112, 130, 255}

\* the chips of the table, an unknown chip, and for each of the twelve
\* families of ChipFamily chips that differ in every other field
CapabilityChips ==
    SectorChips
    \cup {Chip(name, id, id, size, size, family) :
            name \in {"CH32V307", "x"}, id \in {0, 48}, size \in {0, 65536},
            family \in {"CH32V", "CH32F", "CH549", "CH552", "CH582", "CH579",
                        "CH559", "CH592", "CH573", "CH32V003", "CH32X035",
                        "Unknown"}}

UnitInit ==
    /\ \/ \E chip_id \in LookupChipIds, device_type \in LookupDeviceTypes :
            codec = [op |-> "find_chip", arg |-> <<chip_id, device_type>>, out |-> <<>>]
       \/ \E chip \in CapabilityChips :
            codec = [op |-> "capabilities", arg |-> chip, out |-> <<>>]
       \/ \E len \in SectorLens, chip \in SectorChips, overflow_checks \in BOOLEAN :
            codec = [op |-> "sectors_needed",
                     arg |-> [len |-> len, chip |-> chip,
                              overflow_checks |-> overflow_checks],
                     out |-> <<>>]
       \/ \E chunk \in XorChunks, uid \in XorUids, chip_id \in XorChipIds :
            codec = [op |-> "xor_chunk",
                     arg |-> [chunk |-> chunk,
                              s |-> [NewFlashing EXCEPT !.chip_uid = uid,
                                                        !.chip = find_chip(chip_id, 23)]],
                     out |-> chunk]
    /\ Quiet

\* ChipDB::find_chip applied to the pair
FindChip ==
    /\ codec.op = "find_chip"
    /\ codec' = [codec EXCEPT !.op = "found",
                              !.out = find_chip_result(codec.arg[1], codec.arg[2])]
    /\ UNCHANGED sysvars

\* the sector count of flash_firmware for the length
SectorsNeeded ==
    /\ codec.op = "sectors_needed"
    /\ codec' = [codec EXCEPT !.op = "counted",
                              !.out = sectors_needed_u32(codec.arg.chip, codec.arg.len,
                                                         codec.arg.overflow_checks)]
    /\ UNCHANGED sysvars

\* the per-byte transform of program_flash and verify_firmware applied to
\* the chunk, and applied again to what it gave
XorChunk ==
    /\ codec.op \in {"xor_chunk", "xor_once"}
    /\ codec' = [codec EXCEPT
                   !.op = IF codec.op = "xor_chunk" THEN "xor_once" ELSE "xor_twice",
                   !.out = xor_chunk(codec.out, generate_xor_key(codec.arg.s))]
    /\ UNCHANGED sysvars

\* the two capability predicates of the chip
Capabilities ==
    /\ codec.op = "capabilities"
    /\ codec' = [codec EXCEPT
                   !.op = "capable",
                   !.out = [encryption_supported |-> encryption_supported(codec.arg),
                            support_code_flash_protect |->
                                support_code_flash_protect(codec.arg)]]
    /\ UNCHANGED sysvars

UnitNext == FindChip \/ SectorsNeeded \/ XorChunk \/ Capabilities

SpecUnit == UnitInit /\ [][UnitNext]_vars

(***************************************************************************)
(* The same systems with the scheduling of the threads: a thread inside an *)
(* entry point goes on running (each transport call returns), and a thread *)
(* that waits for a mutex gets it when it is released again and again.     *)
(* A caller need not call again.                                           *)
(***************************************************************************)
WithinCall(t) ==
    \/ TransportInitialize(t)
    \/ Send(t)
    \/ RecvIdentify(t)
    \/ RecvReadConfig(t)
    \/ RecvUnprotectRead(t)
    \/ RecvUnprotectWrite(t)
    \/ RecvErase(t)
    \/ RecvIspKey(t)
    \/ RecvProgramChunk(t)
    \/ RecvProgramFinal(t)
    \/ RecvVerifyChunk(t)
    \/ RecvReset(t)
    \/ RecvEraseEeprom(t)
    \/ TakeHandle(t)
    \/ Insert(t)
    \/ Begin(t)
    \/ BeginEraseEeprom(t)
    \/ Remove(t)
    \/ CloseTransport(t)

Scheduling ==
    \A t \in Threads :
        /\ WF_vars(WithinCall(t))
        /\ SF_vars(LockInstances(t))
        /\ SF_vars(LockNext(t))

SpecLive == Init /\ [][Next]_vars /\ Scheduling

SpecJniLive == InitJni /\ [][NextJni]_vars /\ Scheduling

(***************************************************************************)
(* Properties of the codec (checked under SpecCodec).                      *)
(***************************************************************************)

\* the encoded command's bytes under the response header: the reserved byte
\* inserted between the 3-byte command header and the payload
WithResponseHeader(raw) ==
    <<raw[1], raw[2], raw[3], 0>> \o SubSeq(raw, 4, Len(raw))

\* C1 (as stated): for a valid payload (one the length byte can tell),
\* decoding the bytes produced by encoding a command yields
\* the same kind, the same declared payload length and the same payload bytes.
C1_RoundTripAsStated ==
    (codec.op = "roundtrip" /\ Len(codec.cmd.payload) <= 255) =>
        /\ codec.resp.ok
        /\ codec.resp.cmd_type = codec.cmd.cmd_type
        /\ Len(codec.resp.payload) = codec.raw[2]
        /\ codec.resp.payload = codec.cmd.payload

\* C1 (amended): decoding the bytes produced by encoding a command never
\* reproduces the command.  The encoder writes the 3-byte command header and
\* the decoder reads the 4-byte response header, so for a payload of at most
\* 255 bytes decoding is an error ("Response too short" for the empty payload,
\* "Incomplete response payload" otherwise), and the same bytes under the
\* response header decode to the command's kind, declared payload length and
\* payload bytes, with status 0.  For a payload of more than 255 bytes the
\* encoder's length byte is the length modulo 256, and decoding succeeds with
\* the command's kind, status 0 and a payload of that many bytes taken from
\* the second payload byte on, which is not the command's payload.
C1_RoundTripNeedsResponseHeader ==
    codec.op = "roundtrip" =>
        LET payload == codec.cmd.payload
            declared == Len(payload) % 256
        IN /\ codec.raw[2] = declared
           /\ Len(payload) <= 255 =>
                 /\ ~codec.resp.ok
                 /\ codec.resp.err = IF Len(payload) = 0
                                     THEN "Response too short"
                                     ELSE "Incomplete response payload"
                 /\ LET resp == from_raw(WithResponseHeader(codec.raw))
                    IN /\ resp.ok
                       /\ resp.cmd_type = codec.cmd.cmd_type
                       /\ resp.status = 0
                       /\ Len(resp.payload) = codec.raw[2]
                       /\ resp.payload = payload
           /\ Len(payload) > 255 =>
                 /\ codec.resp.ok
                 /\ codec.resp.cmd_type = codec.cmd.cmd_type
                 /\ codec.resp.status = 0
                 /\ codec.resp.payload = SubSeq(payload, 2, 1 + declared)
                 /\ Len(codec.resp.payload) = declared
                 /\ codec.resp.payload # payload

\* a Program command with data has been encoded and its bytes decoded
C1_Witness ==
    /\ codec.op = "roundtrip"
    /\ codec.cmd.cmd_type = "Program"
    /\ Len(codec.cmd.payload) > 5
    /\ codec.resp.err = "Incomplete response payload"

\* C2: decoding is an error for a buffer shorter than the 4-byte response
\* header, for a first byte that is no command code, and for a declared
\* payload length larger than the bytes that follow the header.
C2_DecodeRejectsMalformed ==
    codec.op = "decoded" =>
        LET raw == codec.raw
        IN /\ Len(raw) < 4 => ~codec.resp.ok
           /\ (Len(raw) >= 4 /\ raw[1] \notin 161..171) => ~codec.resp.ok
           /\ (Len(raw) >= 4 /\ raw[2] > Len(raw) - 4) => ~codec.resp.ok
           /\ (Len(raw) >= 4 /\ raw[1] \in 161..171 /\ raw[2] <= Len(raw) - 4) =>
                 /\ codec.resp.ok
                 /\ codec.resp.status = raw[3]
                 /\ codec.resp.payload = SubSeq(raw, 5, 4 + raw[2])

\* a buffer with a known kind and a full header whose declared payload length
\* exceeds the bytes present has been decoded
C2_Witness ==
    /\ codec.op = "decoded"
    /\ Len(codec.raw) >= 5
    /\ codec.raw[1] = 161
    /\ codec.raw[2] = Len(codec.raw) - 3
    /\ codec.resp.err = "Incomplete response payload"

(***************************************************************************)
(* Properties of the transfer and of the orchestrator (checked under Spec, *)
(* where every call keeps its history).                                    *)
(***************************************************************************)

\* the index, in a call's history, of its last completed transfer
LastDone(me) ==
    IF me.pc = "recv" THEN Len(me.issued) - 1 ELSE Len(me.issued)

\* C3: a transfer returns a response only if the response's kind byte equals
\* the kind byte of the command that was sent; a response of any other kind
\* makes the transfer fail with the kind-mismatch error whatever its status
\* byte, and the call that issued it returns failure without acting on it.
C3_TransferKindMatch ==
    \A t \in Threads :
        LET me == th[t]
            n == LastDone(me)
        IN n >= 1 =>
            LET cmd == me.issued[n].cmd
                decoded == from_raw(me.rx.data)
            IN /\ me.xfer.ok =>
                    /\ me.rx.ok /\ decoded.ok
                    /\ me.xfer.resp = decoded
                    /\ me.rx.data[1] = into_raw(cmd)[1]
               /\ (me.rx.ok /\ decoded.ok /\ me.rx.data[1] # into_raw(cmd)[1]) =>
                    /\ ~me.xfer.ok
                    /\ me.xfer.err = "Response command type mismatch"
                    /\ me.issued[n].result = "err"
                    /\ me.pc = "returned"
                    /\ me.ret \in {0, -1}

\* during a flash a well-formed response of another kind, with status 0x00,
\* has been received
C3_Witness ==
    \E t \in Threads :
        /\ th[t].op = "flashFirmware"
        /\ th[t].pc = "returned"
        /\ th[t].rx.ok
        /\ from_raw(th[t].rx.data).ok
        /\ th[t].rx.data[3] = 0
        /\ th[t].rx.data[1] # into_raw(th[t].issued[Len(th[t].issued)].cmd)[1]
        /\ th[t].xfer.err = "Response command type mismatch"

(***************************************************************************)
(* Properties of the process: concurrent callers of the JNI entry points   *)
(* (checked under SpecJni).                                                *)
(***************************************************************************)

\* the threads that have sent a command on the session with key k and have
\* not yet returned from the receive of its response
InFlight(k) ==
    {t \in Threads : th[t].pc = "recv" /\ LinkKey(t) = k}

\* C4: on one session sends and receives alternate, so at most one command is
\* in flight per session at any time, also when several threads call the JNI
\* entry points on the same handle concurrently.
C4_HalfDuplex ==
    \A k \in LinkKeys :
        /\ link[k] \in {0, 1}
        /\ Cardinality(InFlight(k)) = link[k]

\* a command is in flight on a handle while another thread has called an
\* entry point on the same handle
C4_Witness ==
    \E t, u \in Threads :
        /\ t # u
        /\ th[t].pc = "recv"
        /\ th[t].op = "flashFirmware"
        /\ th[u].pc = "lock"
        /\ th[u].op \in {"flashFirmware", "verifyFirmware"}
        /\ th[u].handle = th[t].handle
        /\ link[th[t].handle] = 1

\* C5 (as stated): the mutex of the handle registry is held only to insert,
\* remove or look up an entry: no thread holds it while a command it has sent
\* awaits its response or while it closes the transport.
C5_LockOnlyForMapAccess ==
    \A t \in Threads :
        lock_instances = t => th[t].pc \notin {"recv", "close_transport"}

\* C6 (as stated): an operation on one handle never waits for an operation
\* on another handle: no thread is blocked on the registry's mutex while its
\* holder is in a transfer on a different handle.
C6_NoWaitAcrossHandles ==
    \A t, u \in Threads :
        ~ /\ t # u
          /\ th[t].pc = "lock"
          /\ th[t].handle \in DOMAIN instances
          /\ lock_instances = u
          /\ th[u].pc = "recv"
          /\ th[u].handle \in DOMAIN instances
          /\ th[u].handle # th[t].handle

\* the kinds of the commands a call has issued, in order
IssuedKinds(me) ==
    [i \in 1..Len(me.issued) |-> me.issued[i].cmd.cmd_type]

\* ceil(n / 56): the number of chunks of an image of n bytes
ChunkCount(n) == (n + 55) \div 56

\* the kinds of the commands of a complete flash of n bytes on a session whose
\* protected flag is p at entry
FlashSequence(p, n) ==
    (IF p THEN <<"ReadConfig", "WriteConfig">> ELSE <<>>)
    \o <<"Erase", "IspKey">>
    \o [i \in 1..(ChunkCount(n) + 1) |-> "Program"]

IsPrefix(s, full) ==
    /\ Len(s) <= Len(full)
    /\ \A i \in 1..Len(s) : s[i] = full[i]

\* every transfer of the call was answered with status 0x00
AllStatusZero(me) ==
    \A i \in 1..Len(me.issued) :
        me.issued[i].result = "ok" /\ me.issued[i].status = 0

\* the number of data bytes of an issued Program command
ProgramDataLen(e) == Len(e.cmd.payload) - 5

\* C7 (as stated): a flash issues [ReadConfig, WriteConfig iff the protected
\* flag is set at entry], Erase, SetKey, the Program chunks and the Program
\* terminator in this order, never Erase before unprotect has succeeded on a
\* protected session, and no Verify or EndISP; with every response carrying
\* status 0x00, a 100-byte image on a protected session yields unprotect, one
\* Erase, one SetKey, two chunks (56 + 44 bytes) and the terminator, and the
\* flash succeeds.
C7_FlashOrdering ==
    \A t \in Threads :
        LET me == th[t]
            p == me.entry.code_flash_protected
            kinds == IssuedKinds(me)
        IN (me.op = "flashFirmware" /\ me.pc \notin {"idle", "lock", "locked"}) =>
            /\ IsPrefix(kinds, FlashSequence(p, Len(me.firmware)))
            /\ (p /\ Len(kinds) >= 3) =>
                  me.issued[2].result = "ok" /\ me.issued[2].status = 0
            /\ (/\ me.pc \in {"returned", "panicked"}
                /\ me.issued # <<>>
                /\ p
                /\ Len(me.firmware) = 100
                /\ AllStatusZero(me)) =>
                  /\ me.pc = "returned"
                  /\ me.ret = 1
                  /\ kinds = FlashSequence(TRUE, 100)
                  /\ ProgramDataLen(me.issued[5]) = 56
                  /\ ProgramDataLen(me.issued[6]) = 44
                  /\ ProgramDataLen(me.issued[7]) = 0

\* the transfer of a history entry failed, or its response was not status 0x00
Failed(e) ==
    \/ e.result = "err"
    \/ e.result = "ok" /\ e.status # 0

\* C8: in a flash, a failed transfer (send or receive error, undecodable
\* frame, kind mismatch) or a non-zero status on the unprotect ReadConfig or
\* WriteConfig, on Erase, on SetKey or on a Program frame makes the flash
\* return an error, and it is the last command the flash issues; a flash
\* that returns success had status 0x00 on every response, and a SetKey
\* response with status 0x00 is followed by the first Program command whatever
\* checksum it carries.
C8_FlashFailurePropagation ==
    \A t \in Threads :
        LET me == th[t]
        IN me.op = "flashFirmware" =>
            /\ \A i \in 1..Len(me.issued) :
                 Failed(me.issued[i]) =>
                    /\ i = Len(me.issued)
                    /\ me.pc = "returned"
                    /\ me.ret = 0
                    /\ me.err # ""
            /\ (me.pc = "returned" /\ me.ret = 1) =>
                 /\ AllStatusZero(me)
                 /\ IssuedKinds(me) =
                        FlashSequence(me.entry.code_flash_protected, Len(me.firmware))
            /\ (/\ LastDone(me) >= 1
                /\ me.issued[LastDone(me)].cmd.cmd_type = "IspKey"
                /\ ~Failed(me.issued[LastDone(me)])) =>
                 /\ me.pc \in {"send", "recv"}
                 /\ me.cmd.cmd_type = "Program"

\* a flash has returned an error after its Erase was answered with a non-zero
\* status, having issued nothing after the Erase
C8_Witness ==
    \E t \in Threads :
        /\ th[t].op = "flashFirmware"
        /\ th[t].pc = "returned"
        /\ th[t].ret = 0
        /\ Len(th[t].issued) = 3
        /\ th[t].issued[3].cmd.cmd_type = "Erase"
        /\ th[t].issued[3].result = "ok"
        /\ th[t].issued[3].status = 1
        /\ th[t].err = "Flash erase failed"

\* the Program commands a call has issued, in order
IssuedPrograms(me) ==
    SelectSeq(me.issued, LAMBDA e : e.cmd.cmd_type = "Program")

\* the fields of a Program (or Verify) command's payload
AddressOf(cmd) ==
    cmd.payload[1] + 256 * cmd.payload[2] + 65536 * cmd.payload[3]
        + 16777216 * cmd.payload[4]

PaddingOf(cmd) == cmd.payload[5]

DataOf(cmd) == SubSeq(cmd.payload, 6, Len(cmd.payload))

\* C9: for an image of n bytes a flash's programming issues ceil(n/56)
\* Program commands with data, the i-th (from 0) carrying, XORed with the
\* session key, the image bytes [56*i, min(56*(i+1), n)) at address 56*i,
\* then one terminating Program command with address n, padding 0 and no
\* data; nothing follows the terminator, and success is returned only when
\* the terminator was answered with status 0x00.
C9_ProgramChunking ==
    \A t \in Threads :
        LET me == th[t]
            n == Len(me.firmware)
            progs == IssuedPrograms(me)
            key == generate_xor_key(me.entry)
        IN me.op = "flashFirmware" =>
            /\ Len(progs) <= ChunkCount(n) + 1
            /\ \A i \in 1..Len(progs) :
                 LET cmd == progs[i].cmd
                     data == DataOf(cmd)
                     from == 56 * (i - 1)
                 IN IF i <= ChunkCount(n)
                    THEN /\ AddressOf(cmd) = from
                         /\ Len(data) = Min(56, n - from)
                         /\ Len(data) > 0
                         /\ \A j \in 1..Len(data) :
                              Xor8(data[j], key[((j - 1) % 8) + 1])
                                 = me.firmware[from + j]
                    ELSE /\ AddressOf(cmd) = n
                         /\ PaddingOf(cmd) = 0
                         /\ data = <<>>
            /\ (me.pc = "returned" /\ me.ret = 1) =>
                 /\ Len(progs) = ChunkCount(n) + 1
                 /\ progs[Len(progs)] = me.issued[Len(me.issued)]
                 /\ progs[Len(progs)].result = "ok"
                 /\ progs[Len(progs)].status = 0

\* a flash of a 130-byte image has succeeded: chunks of 56, 56 and 18 bytes
\* and the terminator
C9_Witness ==
    \E t \in Threads :
        /\ th[t].op = "flashFirmware"
        /\ th[t].pc = "returned"
        /\ th[t].ret = 1
        /\ Len(th[t].firmware) = 130
        /\ Len(IssuedPrograms(th[t])) = 4
        /\ Len(DataOf(IssuedPrograms(th[t])[3].cmd)) = 18
        /\ AddressOf(IssuedPrograms(th[t])[4].cmd) = 130

\* the last completed transfer of the call was a Verify whose response has a
\* first payload byte other than 0x00
VerifyReportsDifference(me) ==
    /\ me.op = "verifyFirmware"
    /\ LastDone(me) >= 1
    /\ me.xfer.ok
    /\ Len(me.xfer.resp.payload) > 0
    /\ me.xfer.resp.payload[1] # 0

\* C10 (as stated): if the response to the Verify command of a chunk has
\* payload[0] other than 0x00, verify fails with the mismatch error carrying
\* that chunk's address (56 times the chunk index) and issues no Verify
\* command for a later chunk.
C10_VerifyMismatchAsStated ==
    \A t \in Threads :
        LET me == th[t]
        IN VerifyReportsDifference(me) =>
            /\ me.pc = "returned"
            /\ me.ret = 0
            /\ LastDone(me) = Len(me.issued)
            /\ me.err = "Verification mismatch at address"
            /\ me.err_addr = 56 * (Len(me.issued) - 1)
            /\ me.err_addr = AddressOf(me.issued[Len(me.issued)].cmd)

\* C10 (amended): if the response to the Verify command of a chunk has
\* payload[0] other than 0x00, verify fails with an error carrying that
\* chunk's address (56 times the chunk index) and issues no Verify command
\* for a later chunk; the error is the mismatch error when the response's
\* status is 0x00 and the verification-failed (device rejected) error when
\* the status is non-zero, the status being looked at first.
C10_VerifyMismatch ==
    \A t \in Threads :
        LET me == th[t]
        IN VerifyReportsDifference(me) =>
            /\ me.pc = "returned"
            /\ me.ret = 0
            /\ LastDone(me) = Len(me.issued)
            /\ me.err = IF me.xfer.resp.status = 0
                        THEN "Verification mismatch at address"
                        ELSE "Verification failed at address"
            /\ me.err_addr = 56 * (Len(me.issued) - 1)
            /\ me.err_addr = AddressOf(me.issued[Len(me.issued)].cmd)

\* verify has failed with the mismatch error on the second chunk of an image
\* of more than two chunks
C10_Witness ==
    \E t \in Threads :
        /\ VerifyReportsDifference(th[t])
        /\ th[t].xfer.resp.status = 0
        /\ Len(th[t].firmware) > 112
        /\ Len(th[t].issued) = 2
        /\ th[t].pc = "returned"
        /\ th[t].err = "Verification mismatch at address"
        /\ th[t].err_addr = 56

\* the last completed transfer of a verify call was taken as a verified
\* chunk: the call went on to the next chunk or returned success
CountedAsVerified(me) ==
    /\ me.op = "verifyFirmware"
    /\ LastDone(me) >= 1
    /\ \/ me.pc \in {"send", "recv"}
       \/ me.pc = "returned" /\ me.ret = 1

\* C11: verify counts a chunk as verified only when its Verify response has
\* status 0x00 and payload[0] = 0x00, for every possible response, a
\* response with an empty payload included; verify returns success only if
\* every chunk met this criterion.
C11_VerifyAcceptance ==
    \A t \in Threads :
        LET me == th[t]
        IN CountedAsVerified(me) =>
            /\ me.xfer.ok
            /\ me.xfer.resp.status = 0
            /\ Len(me.xfer.resp.payload) > 0
            /\ me.xfer.resp.payload[1] = 0

(***************************************************************************)
(* Properties of the pure functions (checked under SpecUnit).              *)
(***************************************************************************)

\* the entries of the table stored under the pair
StoredUnder(chip_id, device_type) ==
    {i \in 1..Len(ChipTable) :
        ChipTable[i].chip_id = chip_id /\ ChipTable[i].device_type = device_type}

\* C12: find_chip never returns an error; for a (chip_id, device_type) that
\* is not in the table it returns a descriptor of family Unknown with the
\* queried chip_id and device_type, 64 KiB of flash, EEPROM size 0 and
\* encryption unsupported; for each of the 13 keys of the table, which are
\* pairwise distinct, it returns exactly the stored descriptor.
C12_RegistryTotal ==
    /\ Len(ChipTable) = 13
    /\ \A i, j \in 1..Len(ChipTable) :
          (ChipTable[i].chip_id = ChipTable[j].chip_id
           /\ ChipTable[i].device_type = ChipTable[j].device_type) => i = j
    /\ codec.op = "found" =>
          LET stored == StoredUnder(codec.arg[1], codec.arg[2])
              chip == codec.out.chip
          IN /\ codec.out.ok
             /\ stored = {} =>
                   /\ chip.family = "Unknown"
                   /\ chip.chip_id = codec.arg[1]
                   /\ chip.device_type = codec.arg[2]
                   /\ chip.flash_size = 65536
                   /\ chip.eeprom_size = 0
                   /\ ~encryption_supported(chip)
             /\ \A i \in stored : chip = ChipTable[i]

\* a pair whose chip_id is in the table under another device_type has been
\* looked up and resolved to the fallback descriptor
C12_Witness ==
    /\ codec.op = "found"
    /\ codec.arg = <<48, 23>>
    /\ codec.out.ok
    /\ codec.out.chip.family = "Unknown"
    /\ codec.out.chip.name = "Unknown[0x3017]"

\* ceil(len / d) for a u32 len and 64 <= d <= 65536, as a natural
CeilDivU32(len, d) ==
    DivU32(len, d) + (IF (len.hi * (65536 % d) + len.lo) % d = 0 THEN 0 ELSE 1)

\* C13: the sector count flash passes to Erase equals
\* max(min_sectors, ceil(firmware_len / sector_size)) for every firmware
\* length representable by the 32-bit arithmetic used, with no wrap-around:
\* length 0 gives min_sectors (1), length 1 gives 1 and length 2048 gives 2
\* with a sector size of 1024.
C13_SectorMath ==
    codec.op = "counted" =>
        LET chip == codec.arg.chip
            len == codec.arg.len
        IN /\ ~codec.out.panic
           /\ codec.out.sectors =
                 Max(min_erase_sector_number(chip), CeilDivU32(len, sector_size(chip)))
           /\ len = U32(0, 0) => codec.out.sectors = min_erase_sector_number(chip)
           /\ len = U32(0, 1) => codec.out.sectors = 1
           /\ len = U32(0, 2048) => codec.out.sectors = 2

(***************************************************************************)
(* Properties of unprotect, key setup, reset and EEPROM erase (checked     *)
(* under Spec).                                                            *)
(***************************************************************************)

\* a flash entered on a protected session: its first commands are unprotect's
Unprotecting(me) ==
    /\ me.op = "flashFirmware"
    /\ me.pc \notin {"idle", "lock", "locked"}
    /\ me.entry.code_flash_protected

\* the i-th transfer of the call completed with status 0x00
StatusZero(me, i) ==
    /\ Len(me.issued) >= i
    /\ me.issued[i].result = "ok"
    /\ me.issued[i].status = 0

\* the call ended inside unprotect
UnprotectFailed(me) ==
    /\ me.pc \in {"returned", "panicked"}
    /\ Len(me.issued) \in 1..2
    /\ ~(StatusZero(me, 1) /\ StatusZero(me, 2))

\* C14: the session's protected flag is cleared if and only if both the
\* ReadConfig and the WriteConfig transfers of unprotect completed with status
\* 0x00; if the read fails or is rejected no WriteConfig is sent; on any
\* failure unprotect returns an explicit error and the flag is still true.
C14_UnprotectNoPartialSuccess ==
    \A t \in Threads :
        LET me == th[t]
        IN Unprotecting(me) =>
            /\ ~instances[me.handle].code_flash_protected
                  <=> (StatusZero(me, 1) /\ StatusZero(me, 2))
            /\ (Len(me.issued) >= 1 /\ Failed(me.issued[1])) => Len(me.issued) = 1
            /\ Len(me.issued) >= 2 =>
                  /\ StatusZero(me, 1)
                  /\ me.issued[1].cmd = CmdReadConfig(7)
                  /\ me.issued[2].cmd.cmd_type = "WriteConfig"
            /\ UnprotectFailed(me) =>
                  /\ me.pc = "returned"
                  /\ me.ret = 0
                  /\ me.err # ""
                  /\ instances[me.handle].code_flash_protected

\* the WriteConfig command of unprotect is queued for the send or has been
\* sent; the last frame received is still the ReadConfig response
UnprotectWriting(me) ==
    /\ Unprotecting(me)
    /\ me.step = "unprotect_write"
    /\ me.pc \in {"send", "recv"}

\* C15: the WriteConfig command of unprotect uses the register mask of the
\* preceding ReadConfig (0x07) and carries a 12-byte block equal to bytes
\* [2..14] of the read payload except that block byte 0 is 0xA5, byte 1 is
\* 0x5A and bytes 8..11 are 0xFF; block bytes 2..7 are exactly what was read.
C15_UnprotectWriteBack ==
    \A t \in Threads :
        LET me == th[t]
        IN UnprotectWriting(me) =>
            LET frame == into_raw(IF me.pc = "send" THEN me.cmd ELSE me.issued[2].cmd)
                asked == into_raw(me.issued[1].cmd)
                read == me.rx.data
            IN /\ asked = <<167, 4, 0, 7, 0, 0, 0>>
               /\ frame[1] = 168
               /\ Len(frame) = 3 + 4 + 12
               /\ frame[2] = 16
               /\ SubSeq(frame, 4, 7) = SubSeq(asked, 4, 7)
               /\ frame[8] = 165
               /\ frame[9] = 90
               /\ \A i \in 2..7 : frame[8 + i] = read[7 + i]
               /\ \A i \in 8..11 : frame[8 + i] = 255

\* the WriteConfig of unprotect has been sent after a ReadConfig response
\* whose bytes [2..14] differ from the block in byte 0 and in the last four
C15_Witness ==
    \E t \in Threads :
        /\ UnprotectWriting(th[t])
        /\ th[t].pc = "recv"
        /\ SubSeq(th[t].rx.data, 7, 18) = <<0, 90, 60, 195, 1, 2, 3, 4, 5, 6, 7, 8>>
        /\ th[t].issued[2].cmd.payload =
              <<7, 0, 0, 0, 165, 90, 60, 195, 1, 2, 3, 4, 255, 255, 255, 255>>

RECURSIVE SumOf(_)
\* the sum of a sequence of bytes
SumOf(s) == IF s = <<>> THEN 0 ELSE s[1] + SumOf(Tail(s))

\* the key as stated: c seven times, then (c + chip_id) mod 256
StatedKey(s) ==
    LET c == SumOf(s.chip_uid) % 256
    IN <<c, c, c, c, c, c, c, (c + s.chip.chip_id) % 256>>

\* the commands of a call that carry a chunk: Program or Verify with data
IssuedChunks(me) ==
    SelectSeq(me.issued, LAMBDA e : /\ e.cmd.cmd_type \in {"Program", "Verify"}
                                    /\ Len(e.cmd.payload) > 5)

\* C16: with c the sum of the session's UID bytes mod 256 the key is 8 bytes,
\* key[0..6] = c and key[7] = (c + chip_id) mod 256; the same key is used for
\* every chunk of program and of verify (it is never advanced between
\* chunks), and the expected SetKey checksum is the sum of the 8 key bytes
\* mod 256.
C16_XorKeyDerivation ==
    \A t \in Threads :
        LET me == th[t]
            key == StatedKey(me.entry)
            chunks == IssuedChunks(me)
        IN me.op \in {"flashFirmware", "verifyFirmware"} =>
            /\ generate_xor_key(me.entry) = key
            /\ generate_key_checksum(me.entry) = SumOf(key) % 256
            /\ \A i \in 1..Len(chunks) :
                 LET cmd == chunks[i].cmd
                     data == DataOf(cmd)
                     from == AddressOf(cmd)
                 IN \A j \in 1..Len(data) :
                      data[j] = Xor8(me.firmware[from + j], key[((j - 1) % 8) + 1])

\* a flash on a CH32V307 whose UID bytes sum to 226 mod 256 has sent its
\* third chunk: the key is 226 seven times and then (226 + 112) mod 256 = 82
C16_Witness ==
    \E t \in Threads :
        /\ th[t].op = "flashFirmware"
        /\ th[t].entry.chip.chip_id = 112
        /\ th[t].entry.chip_uid = <<205, 171, 18, 52, 86, 120, 154, 188>>
        /\ StatedKey(th[t].entry) = <<226, 226, 226, 226, 226, 226, 226, 82>>
        /\ Len(IssuedChunks(th[t])) = 3
        /\ DataOf(IssuedChunks(th[t])[3].cmd)[8] = Xor8(th[t].firmware[120], 82)

\* C17: for every chunk of length 0..56 and every derived 8-byte key,
\* applying the per-byte transform byte[i] XOR key[i mod 8] twice yields the
\* original chunk.
C17_XorInvolutive ==
    /\ codec.op \in {"xor_once", "xor_twice"} =>
          /\ Len(codec.arg.chunk) \in 0..56
          /\ Len(codec.out) = Len(codec.arg.chunk)
          /\ \A i \in 1..Len(codec.out) : codec.out[i] \in 0..255
    /\ codec.op = "xor_twice" => codec.out = codec.arg.chunk

\* a full chunk has been transformed twice under a key none of whose bytes
\* is zero
C17_Witness ==
    /\ codec.op = "xor_twice"
    /\ codec.arg.chunk = Firmware(56)
    /\ generate_xor_key(codec.arg.s) = <<226, 226, 226, 226, 226, 226, 226, 82>>
    /\ codec.out = Firmware(56)

\* the SetKey commands a call has issued
IssuedKeys(me) ==
    SelectSeq(me.issued, LAMBDA e : e.cmd.cmd_type = "IspKey")

\* the last completed transfer of the call is its SetKey, which came back
\* with a decoded response of the right kind
KeyAnswered(me) ==
    /\ me.op = "flashFirmware"
    /\ LastDone(me) >= 1
    /\ me.issued[LastDone(me)].cmd.cmd_type = "IspKey"
    /\ me.xfer.ok

\* C18: key setup issues exactly one SetKey command whose payload is 0x1E
\* zero bytes; a non-zero status makes it fail; with status 0x00 it succeeds
\* whatever payload[0] is: a checksum mismatch never fails the call, and the
\* flash continues to programming.
C18_KeySetup ==
    \A t \in Threads :
        LET me == th[t]
        IN me.op = "flashFirmware" =>
            /\ Len(IssuedKeys(me)) <= 1
            /\ \A i \in 1..Len(IssuedKeys(me)) :
                 into_raw(IssuedKeys(me)[i].cmd) = <<163, 30, 0>> \o [j \in 1..30 |-> 0]
            /\ (me.pc = "returned" /\ me.ret = 1) => Len(IssuedKeys(me)) = 1
            /\ KeyAnswered(me) =>
                 IF me.xfer.resp.status # 0
                 THEN /\ me.pc = "returned"
                      /\ me.ret = 0
                      /\ me.err = "ISP key setup failed"
                      /\ LastDone(me) = Len(me.issued)
                 ELSE /\ me.pc \in {"send", "recv"}
                      /\ me.cmd.cmd_type = "Program"
                      /\ me.step \in {"program_chunk", "program_final"}

\* a SetKey response with status 0x00 whose payload[0] is not the expected
\* checksum has been received, and the flash goes on to its first Program
C18_Witness ==
    \E t \in Threads :
        /\ KeyAnswered(th[t])
        /\ th[t].xfer.resp.status = 0
        /\ Len(th[t].xfer.resp.payload) > 0
        /\ th[t].xfer.resp.payload[1] # generate_key_checksum(th[t].entry)
        /\ th[t].pc = "send"
        /\ th[t].step = "program_chunk"

\* the response of the call's only transfer arrived, decoded, and is of the
\* kind `code`
Answered(me, code) ==
    /\ me.rx.ok
    /\ from_raw(me.rx.data).ok
    /\ me.rx.data[1] = code

\* C19: reset issues exactly one EndISP command with reset flag 1; a response
\* with a non-zero status does not fail the call, whereas a transport, decode
\* or kind-mismatch failure of that transfer does.
C19_ResetTolerance ==
    \A t \in Threads :
        LET me == th[t]
        IN me.op = "resetChip" =>
            /\ Len(me.issued) <= 1
            /\ \A i \in 1..Len(me.issued) : into_raw(me.issued[i].cmd) = <<162, 1, 0, 1>>
            /\ (me.pc = "returned" /\ me.ret = 1) => Len(me.issued) = 1
            /\ (me.pc = "returned" /\ me.issued # <<>>) =>
                 /\ me.ret = 1 <=> Answered(me, 162)
                 /\ me.ret = 0 => me.err # ""

\* a reset has returned success on a response whose status is not 0x00
C19_Witness ==
    \E t \in Threads :
        /\ th[t].op = "resetChip"
        /\ th[t].pc = "returned"
        /\ th[t].ret = 1
        /\ Answered(th[t], 162)
        /\ th[t].rx.data[3] # 0
        /\ th[t].xfer.resp.status # 0

\* C20: when the resolved chip's EEPROM size is 0, erase_eeprom returns an
\* unsupported-feature error and sends no command at all; otherwise it issues
\* exactly one DataErase with sectors = max(1, eeprom_size / 1024) and fails
\* on a non-zero status.
C20_EepromErase ==
    \A t \in Threads :
        LET me == th[t]
            size == me.entry.chip.eeprom_size
            sectors == IF size \div 1024 >= 1 THEN size \div 1024 ELSE 1
            frame == <<169, 2, 0, sectors % 256, sectors \div 256>>
        IN (me.op = "eraseEeprom" /\ me.pc # "direct") =>
            IF size = 0
            THEN /\ me.issued = <<>>
                 /\ me.pc = "returned"
                 /\ me.ret = 0
                 /\ me.err = "Chip does not support EEPROM"
            ELSE /\ me.pc \in {"send", "recv", "returned"}
                 /\ IF me.pc = "send"
                    THEN me.issued = <<>> /\ into_raw(me.cmd) = frame
                    ELSE Len(me.issued) = 1 /\ into_raw(me.issued[1].cmd) = frame
                 /\ me.pc = "returned" =>
                       /\ me.ret = 1 <=> (Answered(me, 169) /\ me.rx.data[3] = 0)
                       /\ (Answered(me, 169) /\ me.rx.data[3] # 0) =>
                             me.err = "EEPROM erase failed"

\* an EEPROM erase on a CH582 (32 KiB of EEPROM, 32 sectors) has failed on a
\* non-zero status
C20_Witness ==
    \E t \in Threads :
        /\ th[t].op = "eraseEeprom"
        /\ th[t].pc = "returned"
        /\ th[t].entry.chip.eeprom_size = 32768
        /\ th[t].issued[1].cmd.payload = <<32, 0>>
        /\ th[t].xfer.resp.status # 0
        /\ th[t].ret = 0
        /\ th[t].err = "EEPROM erase failed"

(***************************************************************************)
(* Properties of the timeouts, of the error reports and of the round trip  *)
(* (checked under Spec).                                                   *)
(***************************************************************************)

\* the receive timeout stated for a command, in milliseconds
StatedTimeout(cmd) ==
    CASE cmd.cmd_type = "Erase" -> 5000
      [] cmd.cmd_type = "Program" /\ Len(cmd.payload) > 5 -> 300
      [] cmd.cmd_type = "Verify" /\ Len(cmd.payload) > 5 -> 300
      [] cmd.cmd_type = "DataErase" -> 1000
      [] OTHER -> 1000

\* C21: every Erase command is issued with a receive timeout of 5000 ms,
\* every per-chunk Program command and every per-chunk Verify command with
\* 300 ms, every DataErase with 1000 ms, and every other command with the
\* default 1000 ms.
C21_Timeouts ==
    \A t \in Threads :
        \A i \in 1..Len(th[t].issued) :
            th[t].issued[i].timeout = StatedTimeout(th[t].issued[i].cmd)

\* a flash has failed inside program_flash, or a verify has failed: the last
\* command issued is a Program or a Verify command
FailedInProgress(me) ==
    /\ me.op \in {"flashFirmware", "verifyFirmware"}
    /\ me.pc = "returned"
    /\ me.ret = 0
    /\ me.issued # <<>>
    /\ me.issued[Len(me.issued)].cmd.cmd_type \in {"Program", "Verify"}

\* C22: every error returned by program or verify, whether caused by a
\* non-zero status, a verification mismatch, a transport or decode failure
\* during a chunk, or a failure of the terminating Program frame, identifies
\* the failing step and carries the byte address that was in progress.
C22_FailureReporting ==
    \A t \in Threads :
        LET me == th[t]
        IN FailedInProgress(me) =>
            /\ me.err \in {"Programming failed at address",
                           "Failed to complete programming sequence",
                           "Verification failed at address",
                           "Verification mismatch at address"}
            /\ me.err_addr = AddressOf(me.issued[Len(me.issued)].cmd)

\* C23: each transfer performs at most one transport send and at most one
\* transport receive and retries neither; the receive is called only after
\* the send reported that all bytes of the frame were sent; an incomplete or
\* failed send, or an empty receive, makes the transfer fail.
C23_OneRoundTrip ==
    [][\A t \in Threads :
         LET me == th[t]
             after == th'[t]
             k == LinkKey(t)
         IN /\ (me.pc = "send" /\ after # me) =>
                 /\ Len(after.issued) = Len(me.issued) + 1
                 /\ after.issued[Len(after.issued)].cmd = me.cmd
                 /\ IF after.pc = "recv"
                    THEN /\ after.issued[Len(after.issued)].result = "pending"
                         /\ after.issued[Len(after.issued)].sent = Len(into_raw(me.cmd))
                         /\ link'[k] = link[k] + 1
                    ELSE /\ after.pc = "returned"
                         /\ after.ret \in {0, -1}
                         /\ after.issued[Len(after.issued)].result = "err"
                         /\ after.issued[Len(after.issued)].sent # Len(into_raw(me.cmd))
                         /\ after.err \in {"USB send failed", "Incomplete command send"}
                         /\ link'[k] = link[k]
            /\ (me.pc = "recv" /\ after # me) =>
                 /\ Len(after.issued) = Len(me.issued)
                 /\ after.issued[Len(after.issued)].result # "pending"
                 /\ after.pc # "recv"
                 /\ link[k] = 1
                 /\ link'[k] = 0
                 /\ (~after.rx.ok \/ after.rx.data = <<>>) =>
                       /\ after.issued[Len(after.issued)].result = "err"
                       /\ after.pc = "returned"
                       /\ after.ret \in {0, -1}
            /\ (after.pc = "recv" /\ after # me) => me.pc = "send"]_vars

\* a transfer has failed on its receive, which brought nothing: the call has
\* returned failure with one command issued and none in flight
C23_Witness ==
    \E t \in Threads :
        /\ th[t].op = "resetChip"
        /\ th[t].pc = "returned"
        /\ th[t].ret = 0
        /\ Len(th[t].issued) = 1
        /\ th[t].issued[1].result = "err"
        /\ th[t].err = "USB receive failed or timeout"
        /\ ~th[t].rx.ok
        /\ link[th[t].handle] = 0

(***************************************************************************)
(* Further properties of the codec (checked under SpecCodec).              *)
(***************************************************************************)

\* C24: for every command the encoded frame is byte 0 = kind code, byte 1 =
\* payload length, byte 2 = 0x00, followed by exactly the payload bytes: the
\* frame is 3 + payload_len bytes long and byte 1 equals the number of
\* payload bytes that follow.
C24_EncodeLayout ==
    codec.op = "encoded" =>
        LET raw == codec.raw
            payload == codec.cmd.payload
        IN /\ Len(raw) = 3 + Len(payload)
           /\ raw[1] = CmdCode(codec.cmd.cmd_type)
           /\ raw[1] \in 161..171
           /\ raw[2] = Len(payload)
           /\ raw[2] = Len(raw) - 3
           /\ raw[3] = 0
           /\ SubSeq(raw, 4, Len(raw)) = payload

\* C25: for every buffer with a known kind byte and at least 4 + byte1 bytes,
\* decode returns kind = byte 0, status = byte 2 and payload = bytes
\* [4 .. 4 + byte1), independent of the value of byte 3 and of any bytes
\* after the declared payload.
C25_DecodeFieldMapping ==
    (/\ codec.op = "decoded"
     /\ Len(codec.raw) >= 4
     /\ codec.raw[1] \in 161..171
     /\ Len(codec.raw) >= 4 + codec.raw[2]) =>
        LET raw == codec.raw
            declared == [i \in 1..raw[2] |-> raw[4 + i]]
        IN /\ codec.resp.ok
           /\ CmdCode(codec.resp.cmd_type) = raw[1]
           /\ codec.resp.status = raw[3]
           /\ codec.resp.payload = declared
           /\ \A reserved \in {0, 90, 255} :
                 from_raw(<<raw[1], raw[2], raw[3], reserved>> \o declared) = codec.resp

\* a buffer with a non-zero byte 3 and bytes after its declared payload has
\* been decoded
C25_Witness ==
    /\ codec.op = "decoded"
    /\ codec.raw[1] = 165
    /\ codec.raw[2] = 2
    /\ codec.raw[3] = 1
    /\ codec.raw[4] = 90
    /\ Len(codec.raw) = 8
    /\ codec.resp.ok
    /\ codec.resp.payload = SubSeq(codec.raw, 5, 6)

(***************************************************************************)
(* Properties of the initialization (checked under Spec).                  *)
(***************************************************************************)

\* the Identify commands a call has issued
IssuedIdentifies(me) ==
    SelectSeq(me.issued, LAMBDA e : e.cmd.cmd_type = "Identify")

\* the last completed transfer of an openDevice is its Identify
IdentifyDone(me) ==
    /\ me.op = "openDevice"
    /\ LastDone(me) = 1
    /\ me.issued[1].cmd.cmd_type = "Identify"

\* C26: identify issues exactly one Identify command with payload
\* [0,0,0,0,0,0]; it returns (payload[0], payload[1]) of the response only
\* when the status is 0x00 and the payload has at least 2 bytes, and returns
\* an error otherwise.
C26_Identification ==
    \A t \in Threads :
        LET me == th[t]
        IN me.op = "openDevice" =>
            /\ Len(IssuedIdentifies(me)) <= 1
            /\ me.issued # <<>> =>
                  into_raw(me.issued[1].cmd) = <<161, 6, 0, 0, 0, 0, 0, 0, 0>>
            /\ Len(me.issued) >= 2 =>
                  /\ me.issued[1].result = "ok"
                  /\ me.issued[1].status = 0
            /\ IdentifyDone(me) =>
                  IF /\ Answered(me, 161)
                     /\ me.rx.data[3] = 0
                     /\ me.rx.data[2] >= 2
                  THEN /\ me.pc \in {"send", "recv"}
                       /\ me.flasher.chip.chip_id = me.rx.data[5]
                       /\ me.flasher.chip.device_type = me.rx.data[6]
                  ELSE /\ me.pc = "returned"
                       /\ me.ret = -1
                       /\ me.err # ""
                       /\ me.flasher.chip = PlaceholderChip

\* an Identify response with status 0x00 and a single payload byte has been
\* received: the identification is refused
C26_Witness ==
    \E t \in Threads :
        /\ IdentifyDone(th[t])
        /\ Answered(th[t], 161)
        /\ th[t].rx.data = <<161, 1, 0, 0, 112>>
        /\ th[t].pc = "returned"
        /\ th[t].err = "Invalid identification response"

\* an openDevice whose ReadConfig came back with a response of its kind: the
\* session initialize has built, and the payload of that response
ConfigRead(me) ==
    /\ me.op = "openDevice"
    /\ me.pc \in {"lock_next", "take_handle", "lock", "locked"}
    /\ Len(me.issued) = 2
    /\ me.issued[2].cmd.cmd_type = "ReadConfig"
    /\ Answered(me, 167)

ConfigPayload(me) == SubSeq(me.rx.data, 5, 4 + me.rx.data[2])

\* C27: after a successful ReadConfig whose payload has at least 18 bytes the
\* session's bootloader version is payload[14..18], its UID the payload bytes
\* from index 18 onward and, if the resolved chip supports flash protection,
\* its protected flag is (payload[2] != 0xA5); when the payload is shorter
\* than 18 bytes none of the three fields changes.
C27_ConfigParsing ==
    \A t \in Threads :
        LET me == th[t]
            s == me.flasher
            payload == ConfigPayload(me)
        IN (ConfigRead(me) /\ me.rx.data[3] = 0) =>
            IF Len(payload) >= 18
            THEN /\ s.bootloader_version = SubSeq(payload, 15, 18)
                 /\ s.chip_uid = SubSeq(payload, 19, Len(payload))
                 /\ s.code_flash_protected =
                       IF s.chip.family \in {"CH32V", "CH32F"}
                       THEN payload[3] # 165
                       ELSE FALSE
            ELSE /\ s.bootloader_version = <<0, 0, 0, 0>>
                 /\ s.chip_uid = <<>>
                 /\ s.code_flash_protected = FALSE

\* a CH32V307 has reported a configuration of 26 bytes whose RDPR byte is not
\* 0xA5: the session is protected and has an 8-byte UID
C27_Witness ==
    \E t \in Threads :
        /\ ConfigRead(th[t])
        /\ th[t].rx.data[3] = 0
        /\ Len(ConfigPayload(th[t])) = 26
        /\ ConfigPayload(th[t])[3] = 0
        /\ th[t].flasher.chip.name = "CH32V307"
        /\ th[t].flasher.code_flash_protected
        /\ th[t].flasher.bootloader_version = <<0, 2, 9, 0>>
        /\ th[t].flasher.chip_uid = <<205, 171, 18, 52, 86, 120, 154, 188>>

\* the ReadConfig of an openDevice has completed, successfully or not
ConfigDone(me) ==
    /\ me.op = "openDevice"
    /\ Len(me.issued) = 2
    /\ me.issued[2].cmd.cmd_type = "ReadConfig"
    /\ me.issued[2].result # "pending"

\* a session with the defaults of its construction
HasDefaults(s) ==
    /\ s.chip_uid = <<>>
    /\ s.bootloader_version = <<0, 0, 0, 0>>
    /\ ~s.code_flash_protected

\* C28: when the ReadConfig issued during initialization is answered with a
\* non-zero status, initialization still succeeds and the session keeps its
\* defaults (empty UID, bootloader version 0.0.0.0, protected = false); a
\* transport, decode or kind-mismatch failure of that transfer makes
\* initialization fail.
C28_BestEffortConfigRead ==
    \A t \in Threads :
        LET me == th[t]
        IN ConfigDone(me) =>
            IF Answered(me, 167)
            THEN /\ me.pc = "returned" => (me.ret >= 1 /\ me.ret \in DOMAIN instances)
                 /\ me.pc # "returned" =>
                       me.pc \in {"lock_next", "take_handle", "lock", "locked"}
                 /\ me.rx.data[3] # 0 =>
                       HasDefaults(IF me.pc = "returned"
                                   THEN instances[me.ret] ELSE me.flasher)
            ELSE /\ me.pc = "returned"
                 /\ me.ret = -1
                 /\ me.err # ""
                 /\ DOMAIN instances = {}

\* an openDevice has returned a handle although its ReadConfig was answered
\* with a non-zero status by a CH32V307 reporting a full configuration
C28_Witness ==
    \E t \in Threads :
        /\ ConfigDone(th[t])
        /\ Answered(th[t], 167)
        /\ th[t].rx.data[3] # 0
        /\ th[t].rx.data[2] = 26
        /\ th[t].pc = "returned"
        /\ th[t].ret = 1
        /\ instances[1].chip.name = "CH32V307"
        /\ HasDefaults(instances[1])

\* the call is a flash made right after a flash that failed on the same
\* session, and it has reached the device
AfterFailedFlash(me) ==
    /\ me.op = "flashFirmware"
    /\ me.prior.handle # 0
    /\ me.prior.handle = me.handle
    /\ me.pc \notin {"idle", "lock", "locked"}

\* C29: a flash that failed at any step (also past the first Program chunk)
\* leaves no progress in the session: the session is the one the failed flash
\* found, but for the protected flag that its unprotect may have cleared; and
\* the next flash on the session issues the whole sequence again: unprotect
\* exactly when the protected flag is still set, then Erase, SetKey and the
\* Program commands with addresses from 0.
C29_NoResume ==
    \A t \in Threads :
        LET me == th[t]
            n == Len(me.firmware)
            progs == IssuedPrograms(me)
        IN /\ (me.pc = "idle" /\ me.prior.handle # 0) =>
                /\ me.prior.handle \in DOMAIN instances
                /\ instances[me.prior.handle] =
                      [me.prior.entry EXCEPT !.code_flash_protected =
                          instances[me.prior.handle].code_flash_protected]
                /\ instances[me.prior.handle].code_flash_protected =>
                      me.prior.entry.code_flash_protected
           /\ AfterFailedFlash(me) =>
                /\ me.entry = [me.prior.entry EXCEPT !.code_flash_protected =
                                  me.entry.code_flash_protected]
                /\ IsPrefix(IssuedKinds(me),
                            FlashSequence(me.entry.code_flash_protected, n))
                /\ (me.issued = <<>> /\ me.pc = "send") =>
                      me.cmd.cmd_type = IF me.entry.code_flash_protected
                                        THEN "ReadConfig" ELSE "Erase"
                /\ \A i \in 1..Len(progs) :
                      AddressOf(progs[i].cmd) =
                          IF i <= ChunkCount(n) THEN 56 * (i - 1) ELSE n

\* a flash of a 130-byte image has succeeded right after a flash on the same
\* session that had unprotected the chip and then failed past the first
\* Program chunk: it began with Erase and programmed from address 0
C29_Witness ==
    \E t \in Threads :
        /\ AfterFailedFlash(th[t])
        /\ th[t].prior.mid
        /\ th[t].prior.entry.code_flash_protected
        /\ ~th[t].entry.code_flash_protected
        /\ th[t].pc = "returned"
        /\ th[t].ret = 1
        /\ Len(th[t].firmware) = 130
        /\ th[t].issued[1].cmd.cmd_type = "Erase"
        /\ AddressOf(IssuedPrograms(th[t])[1].cmd) = 0

(***************************************************************************)
(* Properties of the capability predicates (checked under SpecUnit).       *)
(***************************************************************************)

\* C30: encryption_supported is true exactly for the families CH32V, CH32F,
\* CH582, CH579, CH573, CH592, CH32V003 and CH32X035 (false for CH549, CH552,
\* CH559 and Unknown), and support_code_flash_protect is true exactly for the
\* families CH32V and CH32F; neither depends on another field of the chip.
C30_Capabilities ==
    codec.op = "capable" =>
        LET family == codec.arg.family
        IN /\ codec.out.encryption_supported =
                (family \in {"CH32V", "CH32F", "CH582", "CH579", "CH573", "CH592",
                             "CH32V003", "CH32X035"})
           /\ family \in {"CH549", "CH552", "CH559", "Unknown"} =>
                ~codec.out.encryption_supported
           /\ codec.out.support_code_flash_protect = (family \in {"CH32V", "CH32F"})

\* the predicates have answered for a chip that is not of the table: a CH582
\* with the name of a CH32V307 supports encryption but not the protection
C30_Witness ==
    /\ codec.op = "capable"
    /\ codec.arg.family = "CH582"
    /\ codec.arg.name = "CH32V307"
    /\ codec.out.encryption_supported
    /\ ~codec.out.support_code_flash_protect

(***************************************************************************)
(* Further properties of the orchestrator's steps.                         *)
(***************************************************************************)

\* the i-th Program command (from 1) of the flash carried a chunk and was
\* answered with a non-zero status
ChunkRejected(me, i) ==
    LET e == IssuedPrograms(me)[i]
    IN /\ i <= ChunkCount(Len(me.firmware))
       /\ e.result = "ok"
       /\ e.status # 0

\* C31: when the response to the Program command of chunk i (from 0) has a
\* non-zero status, the flash fails with the error that names address 56*i,
\* and the rejected command is the last one issued: no Program command for a
\* later chunk and no terminating empty Program frame follows.
C31_ProgramChunkRejection ==
    \A t \in Threads :
        LET me == th[t]
            progs == IssuedPrograms(me)
        IN me.op = "flashFirmware" =>
            \A i \in 1..Len(progs) :
                ChunkRejected(me, i) =>
                    /\ i = Len(progs)
                    /\ progs[i] = me.issued[Len(me.issued)]
                    /\ me.pc = "returned"
                    /\ me.ret = 0
                    /\ me.err = "Programming failed at address"
                    /\ me.err_addr = 56 * (i - 1)
                    /\ AddressOf(progs[i].cmd) = 56 * (i - 1)

\* the second chunk of a 130-byte image was rejected: the flash has failed at
\* address 56 after two Program commands
C31_Witness ==
    \E t \in Threads :
        /\ th[t].op = "flashFirmware"
        /\ Len(th[t].firmware) = 130
        /\ Len(IssuedPrograms(th[t])) = 2
        /\ ChunkRejected(th[t], 2)
        /\ th[t].pc = "returned"
        /\ th[t].err_addr = 56

\* C32: whatever the length of the payload of a ReadConfig response with
\* status 0x00, unprotect ends by returning success or an explicit error: the
\* flash never ends abnormally on a slice out of range while it holds the
\* lock of the handle map (an abnormal end there poisons the lock).
C32_UnprotectInBounds ==
    \A t \in Threads :
        LET me == th[t]
        IN (Unprotecting(me) /\ StatusZero(me, 1)) =>
            /\ me.pc # "panicked"
            /\ ~poisoned
            /\ ~aborted
            /\ (Len(me.issued) = 1 /\ me.pc = "returned") =>
                  /\ me.ret = 0
                  /\ me.err # ""

(***************************************************************************)
(* Properties of the handles and of the sessions.                          *)
(***************************************************************************)

\* C33: opening a device issues Identify and then ReadConfig with the mask
\* 0x1F; when the identification fails no ReadConfig is issued; the handle is
\* allocated and the session enters the handle map only after both transfers
\* have completed, so every session of the map is identified and no command
\* of a flash, erase, verify or reset goes to a session that is not.
C33_InitializationOrder ==
    /\ \A h \in DOMAIN instances :
          /\ instances[h].chip # PlaceholderChip
          /\ instances[h].connected
    /\ \A t \in Threads :
        LET me == th[t]
        IN /\ me.op = "openDevice" =>
                /\ IsPrefix(IssuedKinds(me), <<"Identify", "ReadConfig">>)
                /\ (me.issued # <<>> /\ Failed(me.issued[1])) => Len(me.issued) = 1
                /\ Len(me.issued) >= 2 =>
                      /\ me.issued[1].result = "ok"
                      /\ me.issued[1].status = 0
                      /\ me.issued[2].cmd = CmdReadConfig(31)
                /\ me.pc \in {"transport_init", "send", "recv", "lock_next",
                              "take_handle"} => me.handle = 0
                /\ (\/ me.pc \in {"lock_next", "take_handle", "lock", "locked"}
                    \/ me.pc = "returned" /\ me.ret # -1) =>
                      /\ Len(me.issued) = 2
                      /\ me.issued[2].result = "ok"
                /\ me.pc \in {"lock", "locked"} =>
                      /\ me.handle \notin DOMAIN instances
                      /\ me.flasher.chip # PlaceholderChip
                /\ (me.pc = "returned" /\ me.ret # -1) => me.ret \in DOMAIN instances
           /\ (me.op \notin {"none", "openDevice"} /\ me.pc \in {"send", "recv"}) =>
                /\ me.handle \in DOMAIN instances
                /\ me.entry.chip # PlaceholderChip

\* an openDevice has returned a handle after its Identify and its ReadConfig
\* have completed: the session stored under the handle is a CH32V307
C33_Witness ==
    \E t \in Threads :
        /\ th[t].op = "openDevice"
        /\ th[t].pc = "returned"
        /\ th[t].ret \in DOMAIN instances
        /\ IssuedKinds(th[t]) = <<"Identify", "ReadConfig">>
        /\ th[t].issued[2].timeout = DEFAULT_TIMEOUT_MS
        /\ instances[th[t].ret].chip.name = "CH32V307"

\* an openDevice that has taken its handle and has not inserted its session
HoldsNewHandle(t) ==
    /\ th[t].op = "openDevice"
    /\ th[t].pc \in {"lock", "locked"}

\* the handles in use: those of the map and those taken by an openDevice
\* that has not returned yet
HandlesInUse ==
    DOMAIN instances \cup {th[t].handle : t \in {u \in Threads : HoldsNewHandle(u)}}

\* C34 (as stated): a successful openDevice returns a handle strictly greater
\* than every handle returned before, so greater than every handle of the
\* map (a handle enters the map in the step that returns it).
C34_HandleOrderAsStated ==
    \A t \in Threads :
        HoldsNewHandle(t) => \A h \in DOMAIN instances : h < th[t].handle

\* C34: under any interleaving of openDevice and closeDevice calls every
\* successful openDevice returns a positive handle that is the value of the
\* handle counter when the call took it, strictly greater than every handle
\* taken before, so handles are pairwise distinct and never reused after a
\* close (two concurrent calls may return in the opposite order of their
\* handles); an openDevice that fails returns -1, has taken no handle and
\* leaves the handle counter and the handle map unchanged.
C34_HandleAllocation ==
    [][ /\ next_handle' >= next_handle
        /\ \A h \in HandlesInUse' : h >= 1 /\ h < next_handle'
        /\ \A t \in Threads, u \in Threads :
              (HoldsNewHandle(t)' /\ HoldsNewHandle(u)' /\ t # u) =>
                  th'[t].handle # th'[u].handle
        /\ \A t \in Threads :
              /\ HoldsNewHandle(t)' => th'[t].handle \notin DOMAIN instances'
              /\ (th[t].pc = "take_handle" /\ th'[t].pc = "lock") =>
                    /\ th'[t].handle = next_handle
                    /\ next_handle' = next_handle + 1
                    /\ \A h \in HandlesInUse : h < th'[t].handle
              /\ (HoldsNewHandle(t) /\ th'[t].pc = "returned") =>
                    /\ th'[t].ret = th[t].handle
                    /\ th'[t].ret >= 1
                    /\ DOMAIN instances' = DOMAIN instances \cup {th'[t].ret}
                    /\ next_handle' = next_handle
              /\ (th[t].pc # "returned" /\ th'[t].pc = "returned"
                  /\ th'[t].ret = -1) =>
                    /\ th[t].pc \in {"idle", "transport_init", "send", "recv"}
                    /\ th[t].handle = 0
                    /\ next_handle' = next_handle
                    /\ instances' = instances
      ]_vars

\* two openDevice calls ran side by side: the one that took handle 2 has
\* returned it, the one that took handle 1 is still to insert its session
C34_Witness ==
    \E t \in Threads :
        /\ HoldsNewHandle(t)
        /\ th[t].handle = 1
        /\ 2 \in DOMAIN instances
        /\ next_handle = 3

\* a call that takes a handle holds the lock of the map and is about to look
\* its handle up, and the handle is not in the map
LooksUpMissingHandle(t) ==
    /\ th[t].op \in HandleOps
    /\ th[t].pc = "locked"
    /\ th[t].handle \notin DOMAIN instances

\* C35: closeDevice removes the handle from the map before it closes the
\* transport, and the handle stays removed whether or not the close succeeds;
\* a flashFirmware, eraseChip, verifyFirmware, resetChip or closeDevice called
\* with a handle that is not in the map returns failure without sending a
\* command on any transport and without changing the map or a session.
C35_HandleLifecycle ==
    [][ \A t \in Threads :
          /\ (th[t].op = "closeDevice" /\ th[t].pc = "locked"
              /\ th[t].handle \in DOMAIN instances /\ th'[t] # th[t]) =>
                /\ th'[t].pc = "close_transport"
                /\ DOMAIN instances' = DOMAIN instances \ {th[t].handle}
                /\ \A h \in DOMAIN instances' : instances'[h] = instances[h]
          /\ (th[t].pc = "close_transport" /\ th'[t] # th[t]) =>
                /\ th'[t].pc = "returned"
                /\ th'[t].ret \in {0, 1}
                /\ th[t].handle \notin DOMAIN instances'
                /\ instances' = instances
          /\ (th[t].op \in HandleOps /\ th[t].pc \in {"send", "recv"}) =>
                th[t].handle \in DOMAIN instances
          /\ (LooksUpMissingHandle(t) /\ th'[t] # th[t]) =>
                /\ th'[t].pc = "returned"
                /\ th'[t].ret = 0
                /\ instances' = instances
                /\ link' = link
      ]_vars

\* a call other than closeDevice looks up handle 1 after the session opened
\* under it has been closed
C35_Witness ==
    \E t \in Threads :
        /\ LooksUpMissingHandle(t)
        /\ th[t].op # "closeDevice"
        /\ th[t].handle = 1
        /\ next_handle >= 2
        /\ \A u \in Threads : ~(HoldsNewHandle(u) /\ th[u].handle = 1)

(***************************************************************************)
(* Properties of the locks (checked with the scheduling of the threads).   *)
(***************************************************************************)

\* the thread is inside an entry point
InCall(t) == th[t].pc \notin {"idle", "returned"}

\* no thread holds the lock of the handle counter and the lock of the handle
\* map at the same time
NoThreadHoldsBothLocks ==
    \A t \in Threads : ~(lock_next = t /\ lock_instances = t)

\* C36: no entry point ever holds the lock of the handle counter and the lock
\* of the handle map at the same time, and every call of openDevice,
\* closeDevice, flashFirmware, eraseChip, verifyFirmware and resetChip
\* returns, whatever the other threads do, provided each transport call
\* returns (a call is excused once the JVM has aborted the process inside a
\* transport call; a call that panicked is not).
C36_DeadlockFreedom ==
    /\ []NoThreadHoldsBothLocks
    /\ \A t \in Threads :
          InCall(t) ~> (th[t].pc = "returned" \/ (aborted /\ th[t].pc # "panicked"))

\* the part of C36 that is about the locks alone
C36_LockDiscipline == []NoThreadHoldsBothLocks

\* C36 for the calls that do not end in a panic
C36_ReturnsUnlessPanicked ==
    \A t \in Threads : InCall(t) ~> (th[t].pc \in {"returned", "panicked"} \/ aborted)


(***************************************************************************)
(* Properties of whole sessions.                                           *)
(***************************************************************************)

\* the commands a call has handed to the transfer so far: those of its
\* history and the one it is about to send
HandedOver(me) ==
    {me.issued[i].cmd : i \in 1..Len(me.issued)}
        \cup (IF me.pc = "send" THEN {me.cmd} ELSE {})

\* C37: every command issued during initialization, flash, erase, verify,
\* reset and EEPROM erase has a payload of at most 61 bytes, so the length
\* byte of its frame equals the true payload length and the frame is at most
\* 64 bytes long.
C37_FrameSize ==
    \A t \in Threads :
        \A cmd \in HandedOver(th[t]) :
            /\ Len(cmd.payload) <= 61
            /\ into_raw(cmd)[2] = Len(cmd.payload)
            /\ Len(into_raw(cmd)) <= 64

\* a flash has issued a Program command with a full chunk, whose payload is
\* 61 bytes and whose frame is 64 bytes, after the 30-byte key seed
C37_Witness ==
    \E t \in Threads :
        /\ th[t].op = "flashFirmware"
        /\ \E i \in 1..Len(th[t].issued) :
             /\ th[t].issued[i].cmd.cmd_type = "Program"
             /\ Len(th[t].issued[i].cmd.payload) = 61
             /\ Len(into_raw(th[t].issued[i].cmd)) = 64
        /\ \E i \in 1..Len(th[t].issued) :
             /\ th[t].issued[i].cmd.cmd_type = "IspKey"
             /\ Len(th[t].issued[i].cmd.payload) = 30


\* the sessions of a state: those of the handle map and those the calls hold
SessionsOfState ==
    {instances[h] : h \in DOMAIN instances} \cup {th[t].flasher : t \in Threads}

\* C38: a session whose resolved chip is of neither the CH32V nor the CH32F
\* family (CH32V003, CH32X035 and the unknown chip among them) is never
\* protected, whatever the configuration payload says, and a flash on such a
\* session issues neither ReadConfig nor WriteConfig.
C38_NoProtectionOutsideFamilies ==
    /\ \A s \in SessionsOfState :
           s.chip.family \notin {"CH32V", "CH32F"} => ~s.code_flash_protected
    /\ \A t \in Threads :
           (/\ th[t].op = "flashFirmware"
            /\ th[t].entry.chip.family \notin {"CH32V", "CH32F"}) =>
               \A cmd \in HandedOver(th[t]) :
                   cmd.cmd_type \notin {"ReadConfig", "WriteConfig"}

\* a CH32V003 has reported a configuration of 26 bytes whose RDPR byte is not
\* 0xA5 and its session is not protected
C38_Witness ==
    \E t \in Threads :
        /\ ConfigRead(th[t])
        /\ th[t].rx.data[3] = 0
        /\ Len(ConfigPayload(th[t])) = 26
        /\ ConfigPayload(th[t])[3] = 0
        /\ th[t].flasher.chip.name = "CH32V003"
        /\ th[t].flasher.chip_uid # <<>>
        /\ ~th[t].flasher.code_flash_protected


\* C39: once a session is in the handle map no step of a flash, erase,
\* verify, reset or EEPROM-erase call, successful or failed, changes its chip
\* descriptor, UID or bootloader version, so its XOR key is constant; its
\* protected flag changes only from true to false, and only in the step in
\* which a flash on it completes unprotect's WriteConfig with status 0x00
\* after a ReadConfig answered with status 0x00.
C39_SessionFrame ==
    [][\A h \in (DOMAIN instances) \cap (DOMAIN instances') :
          LET before == instances[h]
              after == instances'[h]
          IN /\ after.chip = before.chip
             /\ after.chip_uid = before.chip_uid
             /\ after.bootloader_version = before.bootloader_version
             /\ generate_xor_key(after) = generate_xor_key(before)
             /\ after.code_flash_protected => before.code_flash_protected
             /\ (before.code_flash_protected /\ ~after.code_flash_protected) =>
                   \E t \in Threads :
                       /\ th'[t].op = "flashFirmware"
                       /\ th'[t].handle = h
                       /\ Len(th'[t].issued) = 2
                       /\ th'[t].issued[2].cmd.cmd_type = "WriteConfig"
                       /\ StatusZero(th'[t], 1)
                       /\ StatusZero(th'[t], 2)
                       /\ th[t].pc = "recv"
                       /\ th[t].step = "unprotect_write"]_vars

\* a flash entered on a protected session with an 8-byte UID has unprotected
\* it and gone on to program: the session is no longer protected and its
\* chip, UID and bootloader version are those it had at entry
C39_Witness ==
    \E t \in Threads :
        /\ Unprotecting(th[t])
        /\ Len(IssuedPrograms(th[t])) >= 1
        /\ th[t].handle \in DOMAIN instances
        /\ ~instances[th[t].handle].code_flash_protected
        /\ Len(instances[th[t].handle].chip_uid) = 8
        /\ instances[th[t].handle].chip = th[t].entry.chip
        /\ instances[th[t].handle].chip_uid = th[t].entry.chip_uid
        /\ instances[th[t].handle].bootloader_version = <<0, 2, 9, 0>>


\* the number of commands a call has issued so far, the one it is about to
\* send included
CommandsIssued(me) == Len(me.issued) + (IF me.pc = "send" THEN 1 ELSE 0)

\* the stated bound on the commands of a flash or verify of the call's image
CommandBound(me) ==
    IF me.op = "flashFirmware"
    THEN ChunkCount(Len(me.firmware)) + 5
    ELSE ChunkCount(Len(me.firmware))

\* a flash or verify call that has not ended
Loading(me) ==
    /\ me.op \in {"flashFirmware", "verifyFirmware"}
    /\ me.pc \notin {"idle", "returned", "panicked"}

\* an upper bound on the steps a flash or verify call has left: two for each
\* command it may still issue, and those of taking the lock
StepsLeft(me) ==
    CASE me.pc = "lock" -> 2 * CommandBound(me) + 3
      [] me.pc = "locked" -> 2 * CommandBound(me) + 2
      [] me.pc = "send" -> 2 * (CommandBound(me) - Len(me.issued)) + 1
      [] me.pc = "recv" -> 2 * (CommandBound(me) - Len(me.issued)) + 2
      [] OTHER -> 0

\* the counts of C40 in a state
WithinCommandBound ==
    \A t \in Threads :
        LET me == th[t]
        IN me.op \in {"flashFirmware", "verifyFirmware"} =>
            /\ CommandsIssued(me) <= CommandBound(me)
            /\ (me.op = "verifyFirmware" /\ me.firmware = <<>>) =>
                  /\ CommandsIssued(me) = 0
                  /\ (me.pc = "returned" /\ me.entry # NewFlashing) => me.ret = 1

\* C40: whatever the device answers (any status, any payload, a failed or
\* timed-out transfer), a flash of an image of n bytes issues at most
\* ceil(n/56) + 5 commands and a verify at most ceil(n/56), and every step of
\* such a call brings its end nearer (the steps it has left decrease and are
\* never negative), so the call ends provided each transport call returns;
\* the verify of an empty image issues no command and succeeds.
C40_Termination ==
    /\ []WithinCommandBound
    /\ [][\A t \in Threads :
              (Loading(th[t]) /\ th'[t] # th[t]) =>
                  /\ StepsLeft(th'[t]) < StepsLeft(th[t])
                  /\ StepsLeft(th'[t]) >= 0]_vars

\* a flash of a 130-byte image on a protected session has succeeded after
\* 3 + 5 commands
C40_Witness ==
    \E t \in Threads :
        /\ th[t].op = "flashFirmware"
        /\ th[t].pc = "returned"
        /\ th[t].ret = 1
        /\ Len(th[t].firmware) = 130
        /\ th[t].entry.code_flash_protected
        /\ Len(th[t].issued) = 8
        /\ CommandsIssued(th[t]) = CommandBound(th[t])

=============================================================================
